---- MODULE Spec2Model ----
(***************************************************************************)
(* VileTechFS (crates/vfs): the virtual file system of VileTech.           *)
(*                                                                         *)
(* The state is that of `struct VirtualFs`: the root slot, the mount       *)
(* table and the two slot arenas.  A slot-map key is modelled by a number  *)
(* that is handed out once and never again (a generational key: a removed  *)
(* key is never equal to a later one).  An IndexSet is a sequence without  *)
(* duplicates; IndexSet::remove is swap_remove.  A string is a sequence of *)
(* one-character strings, so that case folding and splitting are computed. *)
(* A panic ends the program: the state is frozen with panicked = TRUE.     *)
(***************************************************************************)
EXTENDS Integers, Sequences, FiniteSets, TLC

VARIABLES root, mounts, files, folders, nextFile, nextFolder,
          debug_assertions, panicked, last, reading, frame

vars == <<root, mounts, files, folders, nextFile, nextFolder,
          debug_assertions, panicked, last, reading, frame>>

(***************************************************************************)
(* Bounds of the model.                                                    *)
(***************************************************************************)
\* Number of file keys the file arena may hand out in one run.
MaxFileKey == 3
\* Number of folder keys the folder arena may hand out in one run.
MaxFolderKey == 3

(***************************************************************************)
(* Program constants.                                                      *)
(***************************************************************************)
\* lookup_recur: folders with more files than this are searched in parallel.
PAR_THRESHOLD == 4096

\* Option::None for a parent slot.
NONE == 0

(***************************************************************************)
(* Strings.                                                                *)
(***************************************************************************)
\* u8::to_ascii_lowercase on the letters the model uses.
to_ascii_lowercase(c) ==
    CASE c = "A" -> "a"
      [] c = "B" -> "b"
      [] c = "D" -> "d"
      [] c = "X" -> "x"
      [] c = "Y" -> "y"
      [] OTHER -> c

\* str::make_ascii_lowercase / the folding done by eq_ignore_ascii_case.
make_ascii_lowercase(s) == [i \in 1..Len(s) |-> to_ascii_lowercase(s[i])]

\* eq_ignore_ascii_case comparing the bytes as they are (`==`).
eq_exact_case(s, t) == s = t

\* str::eq_ignore_ascii_case
eq_ignore_ascii_case(s, t) == make_ascii_lowercase(s) = make_ascii_lowercase(t)

\* str::contains(['/', '\\', '*'])
contains_invalid_chars(s) == \E i \in 1..Len(s) : s[i] \in {"/", "\\", "*"}

RECURSIVE split_components(_, _, _)
split_components(s, cur, acc) ==
    IF s = <<>>
    THEN IF cur = <<>> THEN acc ELSE Append(acc, cur)
    ELSE IF Head(s) = "/"
         THEN split_components(Tail(s), <<>>,
                               IF cur = <<>> THEN acc ELSE Append(acc, cur))
         ELSE split_components(Tail(s), Append(cur, Head(s)), acc)

\* VPath::components: the non-empty pieces between slashes.
components(vpath) == split_components(vpath, <<>>, <<>>)

(***************************************************************************)
(* Sequences used as IndexSet.                                             *)
(***************************************************************************)
Range(s) == {s[i] : i \in 1..Len(s)}

IndexOf(s, x) == CHOOSE i \in 1..Len(s) : s[i] = x

\* IndexSet::remove (swap_remove): the last element takes the place of x.
swap_remove(s, x) ==
    IF x \notin Range(s) THEN s
    ELSE LET i == IndexOf(s, x)
             n == Len(s)
         IN [j \in 1..(n - 1) |-> IF j = i THEN s[n] ELSE s[j]]

\* Vec::remove(p): the later elements shift down.
vec_remove(s, p) == [j \in 1..(Len(s) - 1) |-> IF j < p THEN s[j] ELSE s[j + 1]]

\* A removal that drops key k and every key handed out after it.
arena_truncate(arena, k) == [x \in {y \in DOMAIN arena : y < k} |-> arena[x]]

\* SlotMap::remove(key)
arena_remove(arena, k) == [x \in DOMAIN arena \ {k} |-> arena[x]]

(***************************************************************************)
(* Slots.                                                                  *)
(***************************************************************************)
SlotFile(s) == [tag |-> "File", slot |-> s]
SlotFolder(s) == [tag |-> "Folder", slot |-> s]

(***************************************************************************)
(* The value of a VirtualFs: the four fields of the struct, and ok, which  *)
(* turns FALSE when a call on it panics.                                   *)
(***************************************************************************)
VirtualFs(r, m, fi, fo) ==
    [root |-> r, mounts |-> m, files |-> fi, folders |-> fo, ok |-> TRUE]

\* The VirtualFs of the current state.
self == VirtualFs(root, mounts, files, folders)

Panic(v) == [v EXCEPT !.ok = FALSE]

(***************************************************************************)
(* Counters and existence.                                                 *)
(***************************************************************************)
file_count(v) == Cardinality(DOMAIN v.files)
folder_count(v) == Cardinality(DOMAIN v.folders)
\* total_count that leaves the root folder out.
total_count_without_root(v) == file_count(v) + folder_count(v) - 1

total_count(v) == file_count(v) + folder_count(v)
file_exists(v, slot) == slot \in DOMAIN v.files
folder_exists(v, slot) == slot \in DOMAIN v.folders

\* Option<FileRef>, Option<FolderRef>: the slot when it is live, else NONE.
get_file(v, slot) == IF slot \in DOMAIN v.files THEN slot ELSE NONE
get_folder(v, slot) == IF slot \in DOMAIN v.folders THEN slot ELSE NONE

(***************************************************************************)
(* Lookup.  The result is the set of outcomes the call can produce:        *)
(* Ref::File, Ref::Folder, None, or a panic from indexing an arena with a  *)
(* key that is no longer in it.                                            *)
(***************************************************************************)
RefFile(s) == [tag |-> "File", slot |-> s]
RefFolder(s) == [tag |-> "Folder", slot |-> s]
RefNone == [tag |-> "None", slot |-> NONE]
RefPanic == [tag |-> "Panic", slot |-> NONE]

\* Iterator::find_map over a sequence of slots, indexing `arena` on each:
\* the first slot whose name matches; a stale slot met before it panics.
RECURSIVE find_map(_, _, _)
find_map(slots, arena, pcomp) ==
    IF slots = <<>> THEN [tag |-> "None", slot |-> NONE]
    ELSE IF Head(slots) \notin DOMAIN arena THEN [tag |-> "Panic", slot |-> NONE]
    ELSE IF eq_ignore_ascii_case(arena[Head(slots)].name, pcomp)
         THEN [tag |-> "Some", slot |-> Head(slots)]
         ELSE find_map(Tail(slots), arena, pcomp)

\* find_map_any whose closure compares the names byte for byte.
find_map_any_exact_case(slots, arena, pcomp) ==
    LET live == {s \in Range(slots) : s \in DOMAIN arena}
        hits == {s \in live : arena[s].name = pcomp}
    IN {[tag |-> "Some", slot |-> s] : s \in hits}
       \cup (IF hits = {} /\ live = Range(slots)
             THEN {[tag |-> "None", slot |-> NONE]} ELSE {})
       \cup (IF live # Range(slots)
             THEN {[tag |-> "Panic", slot |-> NONE]} ELSE {})

\* ParallelIterator::find_map_any: any matching slot may win; a stale slot
\* anywhere in the set may be indexed and panic.
find_map_any(slots, arena, pcomp) ==
    LET live == {s \in Range(slots) : s \in DOMAIN arena}
        hits == {s \in live : eq_ignore_ascii_case(arena[s].name, pcomp)}
    IN {[tag |-> "Some", slot |-> s] : s \in hits}
       \cup (IF hits = {} /\ live = Range(slots)
             THEN {[tag |-> "None", slot |-> NONE]} ELSE {})
       \cup (IF live # Range(slots)
             THEN {[tag |-> "Panic", slot |-> NONE]} ELSE {})

\* lookup_recur that falls back on the files of the folder when the
\* components left do not resolve inside the matching subfolder.
RECURSIVE lookup_recur_backtracking(_, _, _)
lookup_recur_backtracking(v, slot, comps) ==
    IF comps = <<>> THEN {RefFolder(slot)}
    ELSE LET pcomp == Head(comps)
             folder == v.folders[slot]
             sub == find_map(folder.subfolders, v.folders, pcomp)
             inner == IF sub.tag = "Some"
                      THEN lookup_recur_backtracking(v, sub.slot, Tail(comps))
                      ELSE {RefNone}
             option == IF Len(folder.files) <= PAR_THRESHOLD
                       THEN {find_map(folder.files, v.files, pcomp)}
                       ELSE find_map_any(folder.files, v.files, pcomp)
         IN IF sub.tag = "Panic" THEN {RefPanic}
            ELSE IF sub.tag = "Some" /\ inner # {RefNone} THEN inner
            ELSE {IF o.tag = "Some" THEN RefFile(o.slot)
                  ELSE IF o.tag = "Panic" THEN RefPanic
                  ELSE RefNone : o \in option}

RECURSIVE lookup_recur(_, _, _)
lookup_recur(v, slot, comps) ==
    IF comps = <<>> THEN {RefFolder(slot)}
    ELSE LET pcomp == Head(comps)
             folder == v.folders[slot]
             sub == find_map(folder.subfolders, v.folders, pcomp)
         IN IF sub.tag = "Panic" THEN {RefPanic}
            ELSE IF sub.tag = "Some"
                 THEN lookup_recur(v, sub.slot, Tail(comps))
            ELSE LET option == IF Len(folder.files) <= PAR_THRESHOLD
                               THEN {find_map(folder.files, v.files, pcomp)}
                               ELSE find_map_any(folder.files, v.files, pcomp)
                 IN {IF o.tag = "Some" THEN RefFile(o.slot)
                     ELSE IF o.tag = "Panic" THEN RefPanic
                     ELSE RefNone : o \in option}

\* lookup that treats a path without components as a path that names nothing.
lookup_no_components_none(v, vpath) ==
    IF components(vpath) = <<>> THEN {RefNone}
    ELSE lookup_recur(v, v.root, components(vpath))

lookup(v, vpath) == lookup_recur(v, v.root, components(vpath))

(***************************************************************************)
(* Removal.                                                                *)
(***************************************************************************)
\* `self.mounts.iter().position(|m| m.root == slot)` then `self.mounts.remove(p)`;
\* sl is the slot as a Slot, which equals a root of its own variant only.
\* unregister_mount whose comparison ignores the variant of the root.
unregister_mount_any_variant(mnts, sl) ==
    LET hits == {p \in 1..Len(mnts) : mnts[p].root.slot = sl.slot}
    IN IF hits = {} THEN mnts
       ELSE vec_remove(mnts, CHOOSE p \in hits : \A q \in hits : p <= q)

unregister_mount(mnts, sl) ==
    LET hits == {p \in 1..Len(mnts) : mnts[p].root = sl}
    IN IF hits = {} THEN mnts
       ELSE vec_remove(mnts, CHOOSE p \in hits : \A q \in hits : p <= q)

\* The new VirtualFs; the returned bool is `slot \in DOMAIN v.files`.
remove_file_by_slot(v, slot) ==
    [v EXCEPT !.files = arena_remove(@, slot),
              !.mounts = unregister_mount(@, SlotFile(slot))]

\* The loop `for islot in files { self.files.remove(islot); debug_assert }`.
RECURSIVE remove_files(_, _, _)
remove_files(v, islots, dbg) ==
    IF islots = <<>> \/ ~v.ok THEN v
    ELSE LET removed == Head(islots) \in DOMAIN v.files
             v1 == [v EXCEPT !.files = arena_remove(@, Head(islots))]
         IN IF dbg /\ ~removed THEN Panic(v1)
            ELSE remove_files(v1, Tail(islots), dbg)

RECURSIVE remove_folder_recur(_, _, _)
RECURSIVE remove_subfolders(_, _, _)

remove_folder_recur(v, oslot, dbg) ==
    IF ~v.ok THEN v
    ELSE IF oslot \notin DOMAIN v.folders THEN Panic(v)
    ELSE LET parent_slot == v.folders[oslot].parent
         IN IF parent_slot = NONE \/ parent_slot \notin DOMAIN v.folders
            THEN Panic(v)
            ELSE LET did_remove ==
                         oslot \in Range(v.folders[parent_slot].subfolders)
                     detached ==
                         [v.folders EXCEPT ![parent_slot].subfolders =
                                               swap_remove(@, oslot)]
                     subfolders == detached[oslot].subfolders
                     taken == [detached EXCEPT ![oslot].subfolders = <<>>]
                     v1 == remove_subfolders([v EXCEPT !.folders = taken],
                                             subfolders, dbg)
                 IN IF dbg /\ ~did_remove THEN Panic(v)
                    ELSE IF ~v1.ok THEN v1
                    ELSE remove_files(v1, v1.folders[oslot].files, dbg)

\* The loop `for slot in subfolders { recur(slot); self.folders.remove(slot) }`.
remove_subfolders(v, subs, dbg) ==
    IF subs = <<>> \/ ~v.ok THEN v
    ELSE LET v1 == remove_folder_recur(v, Head(subs), dbg)
             removed == Head(subs) \in DOMAIN v1.folders
             v2 == [v1 EXCEPT !.folders = arena_remove(@, Head(subs))]
         IN IF ~v1.ok THEN v1
            ELSE IF dbg /\ ~removed THEN Panic(v2)
            ELSE remove_subfolders(v2, Tail(subs), dbg)

remove_folder_by_slot(v, slot, dbg) ==
    IF slot = v.root THEN Panic(v)
    ELSE LET v1 == remove_folder_recur(v, slot, dbg)
         IN IF ~v1.ok THEN v1
            ELSE [v1 EXCEPT !.mounts = unregister_mount(@, SlotFolder(slot))]

(***************************************************************************)
(* retain, clear, normalize_names                                          *)
(***************************************************************************)
\* The elements of s at the indices in I, in their order.
RECURSIVE select_from(_, _, _)
select_from(s, I, i) ==
    IF i > Len(s) THEN <<>>
    ELSE IF i \in I THEN <<s[i]>> \o select_from(s, I, i + 1)
    ELSE select_from(s, I, i + 1)

\* The loop `for root in to_unmount` of retain.
RECURSIVE retain_unmount(_, _, _)
retain_unmount(v, to_unmount, dbg) ==
    IF to_unmount = <<>> \/ ~v.ok THEN v
    ELSE LET rt == Head(to_unmount)
         IN IF rt.tag = "File"
            THEN LET removed == rt.slot \in DOMAIN v.files
                     v1 == [v EXCEPT !.files = arena_remove(@, rt.slot)]
                 IN IF dbg /\ ~removed THEN Panic(v1)
                    ELSE retain_unmount(v1, Tail(to_unmount), dbg)
            ELSE retain_unmount(remove_folder_recur(v, rt.slot, dbg),
                                Tail(to_unmount), dbg)

\* keep: the indices of the mounts for which the predicate returns true.
retain(v, keep, dbg) ==
    LET all == 1..Len(v.mounts)
        dropped == select_from(v.mounts, all \ keep, 1)
        to_unmount == [i \in 1..Len(dropped) |-> dropped[i].root]
    IN retain_unmount([v EXCEPT !.mounts = select_from(v.mounts, keep, 1)],
                      to_unmount, dbg)

\* clear without `self.root = ...`: the root folder is re-inserted under the
\* new key, but self.root keeps the key that clear has just removed.
clear_keeps_old_root(v, key) ==
    [v EXCEPT !.folders = (key :> v.folders[v.root]), !.files = <<>>]

\* key: the key that `self.folders.insert(root)` returns.
clear(v, key) ==
    LET rootFolder == v.folders[v.root]
    IN [v EXCEPT !.folders = (key :> rootFolder),
                 !.files = <<>>,
                 !.root = key]

\* normalize_names without the pass over the folders.
normalize_names_files_only(v) ==
    [v EXCEPT !.files = [k \in DOMAIN v.files |->
                            [v.files[k] EXCEPT !.name = make_ascii_lowercase(@)]]]

normalize_names(v) ==
    [v EXCEPT !.files = [k \in DOMAIN v.files |->
                            [v.files[k] EXCEPT !.name = make_ascii_lowercase(@)]],
              !.folders = [k \in DOMAIN v.folders |->
                            [v.folders[k] EXCEPT !.name = make_ascii_lowercase(@)]]]

(***************************************************************************)
(* mount                                                                   *)
(***************************************************************************)
\* mount_point_check with the duplicate test comparing the bytes as they are
\* (`==` in place of eq_ignore_ascii_case).
mount_point_check_case_sensitive(v, mount_point) ==
    IF Len(mount_point) = 0 THEN "MountPointEmpty"
    ELSE IF contains_invalid_chars(mount_point) THEN "MountPointInvalidChars"
    ELSE IF \E i \in 1..Len(v.mounts) : v.mounts[i].mount_point = mount_point
         THEN "MountPointDuplicate"
    ELSE "Ok"

\* The three checks on the mount point, in the order of the code.
mount_point_check(v, mount_point) ==
    IF Len(mount_point) = 0 THEN "MountPointEmpty"
    ELSE IF contains_invalid_chars(mount_point) THEN "MountPointInvalidChars"
    ELSE IF \E i \in 1..Len(v.mounts) :
               eq_ignore_ascii_case(v.mounts[i].mount_point, mount_point)
         THEN "MountPointDuplicate"
    ELSE "Ok"

\* real_path_check without the is_symlink() test.
real_path_check_no_symlink(os) ==
    IF os = "CanonFail" THEN "Canonicalize" ELSE "Ok"

\* canonicalize() and is_symlink() on the physical path; os is what the
\* operating system answers: "CanonFail", "Symlink" or "Plain".
real_path_check(os) ==
    IF os = "CanonFail" THEN "Canonicalize"
    ELSE IF os = "Symlink" THEN "MountSymlink"
    ELSE "Ok"

VFile(name, parent) == [name |-> name, parent |-> parent]

VFolder(name, parent, fs, subs, kind) ==
    [name |-> name, parent |-> parent, files |-> fs, subfolders |-> subs,
     kind |-> kind]

\* What a physical source holds: a plain file, or a directory with a file
\* and a subdirectory with a file; "None" is the source of a builder that
\* fails before it inserts anything.
Sources == {"File", "Dir2"}
NeedFiles(src) == CASE src = "File" -> 1 [] src = "Dir2" -> 2 [] OTHER -> 0
NeedFolders(src) == CASE src = "Dir2" -> 2 [] OTHER -> 0

\* mount_build that inserts a plain file without adding it to the files of
\* the root folder.
mount_build_detached_file(v, src, mount_point, nf, no) ==
    LET r == v.root
    IN CASE src = "File" ->
              [v |-> [v EXCEPT !.files = (nf :> VFile(mount_point, r)) @@ @,
                               !.folders[r].files = @],
               root |-> SlotFile(nf), format |-> "Uncompressed"]
         [] src = "Dir2" ->
              [v |-> [v EXCEPT !.files = (nf :> VFile(<<"X">>, no))
                                         @@ ((nf + 1) :> VFile(<<"y">>, no + 1))
                                         @@ @,
                               !.folders =
                                   (no :> VFolder(mount_point, r, <<nf>>,
                                                  <<no + 1>>, "Directory"))
                                   @@ ((no + 1) :> VFolder(<<"d">>, no,
                                                           <<nf + 1>>, <<>>,
                                                           "Directory"))
                                   @@ [@ EXCEPT ![r].subfolders = Append(@, no)]],
               root |-> SlotFolder(no), format |-> "Directory"]
         [] OTHER -> [v |-> v, root |-> [tag |-> "None", slot |-> NONE],
                      format |-> "None"]

\* mount_build whose file arena gives a plain file the lowest free position
\* as its key, without a new version.
mount_build_reuses_keys(v, src, mount_point, nf, no) ==
    LET r == v.root
        free == CHOOSE k \in 1..nf :
                    /\ k \notin DOMAIN v.files
                    /\ \A j \in 1..(k - 1) : j \in DOMAIN v.files
    IN CASE src = "File" ->
              [v |-> [v EXCEPT !.files = (free :> VFile(mount_point, r)) @@ @,
                               !.folders[r].files = Append(@, free)],
               root |-> SlotFile(free), format |-> "Uncompressed"]
         [] src = "Dir2" ->
              [v |-> [v EXCEPT !.files = (nf :> VFile(<<"X">>, no))
                                         @@ ((nf + 1) :> VFile(<<"y">>, no + 1))
                                         @@ @,
                               !.folders =
                                   (no :> VFolder(mount_point, r, <<nf>>,
                                                  <<no + 1>>, "Directory"))
                                   @@ ((no + 1) :> VFolder(<<"d">>, no,
                                                           <<nf + 1>>, <<>>,
                                                           "Directory"))
                                   @@ [@ EXCEPT ![r].subfolders = Append(@, no)]],
               root |-> SlotFolder(no), format |-> "Directory"]
         [] OTHER -> [v |-> v, root |-> [tag |-> "None", slot |-> NONE],
                      format |-> "None"]

\* mount::mount, the format-specific builder: it inserts the tree of src
\* under the root, named by the mount point, and describes the mount.
\* nf and no are the next keys of the file and the folder arena.
mount_build(v, src, mount_point, nf, no) ==
    LET r == v.root
    IN CASE src = "File" ->
              [v |-> [v EXCEPT !.files = (nf :> VFile(mount_point, r)) @@ @,
                               !.folders[r].files = Append(@, nf)],
               root |-> SlotFile(nf), format |-> "Uncompressed"]
         [] src = "Dir2" ->
              [v |-> [v EXCEPT !.files = (nf :> VFile(<<"X">>, no))
                                         @@ ((nf + 1) :> VFile(<<"y">>, no + 1))
                                         @@ @,
                               !.folders =
                                   (no :> VFolder(mount_point, r, <<nf>>,
                                                  <<no + 1>>, "Directory"))
                                   @@ ((no + 1) :> VFolder(<<"d">>, no,
                                                           <<nf + 1>>, <<>>,
                                                           "Directory"))
                                   @@ [@ EXCEPT ![r].subfolders = Append(@, no)]],
               root |-> SlotFolder(no), format |-> "Directory"]
         [] OTHER -> [v |-> v, root |-> [tag |-> "None", slot |-> NONE],
                      format |-> "None"]

MountInfo(real_path, mount_point, rt, format) ==
    [real_path |-> real_path, mount_point |-> mount_point, root |-> rt,
     format |-> format]

\* The Err branch of mount: r is what `self.lookup(mount_point)` returned.
mount_rollback(v, r, dbg) ==
    IF r.tag = "Panic" THEN Panic(v)
    ELSE IF r.tag = "File" THEN remove_file_by_slot(v, r.slot)
    ELSE IF r.tag = "Folder" THEN remove_folder_by_slot(v, r.slot, dbg)
    ELSE v

(***************************************************************************)
(* The state machine.                                                      *)
(***************************************************************************)
\* The mount points the callers try.
MountPoints ==
    {<<>>, <<"a">>, <<"A">>, <<"b">>, <<"a", "/", "b">>, <<"\\">>, <<"*">>}

\* The answers of the operating system about the physical path.
OsAnswers == {"CanonFail", "Symlink", "Plain"}

\* The errors a builder fails with.
BuilderErrors == {"DirRead", "FileRead"}

NoSlot == [tag |-> "None", slot |-> NONE]

\* The locks of the readers and the callers that read through them, when
\* nobody reads.
NoReading == [locks |-> <<>>, callers |-> <<>>]

\* The call in progress, when every call is taken as one step: none.
NoFrame == [pc |-> "none"]

\* The record of the last call: its name, its arguments (the mount point, the
\* slot), what the operating system answered when the call canonicalized the
\* physical path ("NotAsked" when it did not), and the result.
Call(op, mp, slot, os, res) ==
    [op |-> op, mp |-> mp, slot |-> slot, os |-> os, res |-> res]

\* The call leaves the VirtualFs v behind; a panic ends the program.
Leaves(v, op, mp, slot, os, res) ==
    /\ root' = v.root
    /\ mounts' = v.mounts
    /\ files' = v.files
    /\ folders' = v.folders
    /\ panicked' = ~v.ok
    /\ last' = Call(op, mp, slot, os, IF v.ok THEN res ELSE "panic")
    /\ UNCHANGED <<debug_assertions, reading, frame>>

Init ==
    /\ root = 1
    /\ mounts = <<>>
    /\ files = <<>>
    /\ folders = (1 :> VFolder(<<"/">>, NONE, <<>>, <<>>, "Root"))
    /\ nextFile = 1
    /\ nextFolder = 2
    /\ debug_assertions \in BOOLEAN
    /\ panicked = FALSE
    /\ last = Call("default", <<>>, NoSlot, "NotAsked", "Ok")
    /\ reading = NoReading
    /\ frame = NoFrame

\* mount() returns at one of the three checks of the mount point.
MountPointRejected(mp) ==
    /\ mount_point_check(self, mp) # "Ok"
    /\ Leaves(self, "mount", mp, NoSlot, "NotAsked", mount_point_check(self, mp))
    /\ UNCHANGED <<nextFile, nextFolder>>

\* mount() returns at canonicalize() or at is_symlink().
RealPathRejected(mp, os) ==
    /\ mount_point_check(self, mp) = "Ok"
    /\ real_path_check(os) # "Ok"
    /\ Leaves(self, "mount", mp, NoSlot, os, real_path_check(os))
    /\ UNCHANGED <<nextFile, nextFolder>>

\* mount() with a builder that succeeds.
MountOk(mp, os, src) ==
    /\ mount_point_check(self, mp) = "Ok"
    /\ real_path_check(os) = "Ok"
    /\ nextFile + NeedFiles(src) <= MaxFileKey + 1
    /\ nextFolder + NeedFolders(src) <= MaxFolderKey + 1
    /\ LET b == mount_build(self, src, mp, nextFile, nextFolder)
           mntinfo == MountInfo(src, mp, b.root, b.format)
       IN Leaves([b.v EXCEPT !.mounts = Append(@, mntinfo)],
                 "mount", mp, b.root, os, "Ok")
    /\ nextFile' = nextFile + NeedFiles(src)
    /\ nextFolder' = nextFolder + NeedFolders(src)

\* mount() with a builder that fails with err after inserting the tree of
\* src (nothing when src is "None").
MountFailed(mp, os, src, err) ==
    /\ mount_point_check(self, mp) = "Ok"
    /\ real_path_check(os) = "Ok"
    /\ nextFile + NeedFiles(src) <= MaxFileKey + 1
    /\ nextFolder + NeedFolders(src) <= MaxFolderKey + 1
    /\ LET b == mount_build(self, src, mp, nextFile, nextFolder)
       IN \E r \in lookup(b.v, mp) :
              Leaves(mount_rollback(b.v, r, debug_assertions),
                     "mount", mp, b.root, os, err)
    /\ nextFile' = nextFile + NeedFiles(src)
    /\ nextFolder' = nextFolder + NeedFolders(src)

\* mount(real_path, mp): what the physical path is and holds, and whether
\* the builder fails on it, is the environment's part.
Mount(mp) ==
    /\ ~panicked
    /\ \/ MountPointRejected(mp)
       \/ \E os \in OsAnswers :
              \/ RealPathRejected(mp, os)
              \/ \E src \in Sources : MountOk(mp, os, src)
              \/ \E src \in Sources \cup {"None"}, err \in BuilderErrors :
                     MountFailed(mp, os, src, err)

RemoveFileBySlot(slot) ==
    /\ ~panicked
    /\ Leaves(remove_file_by_slot(self, slot), "remove_file_by_slot", <<>>,
              SlotFile(slot), "NotAsked",
              IF slot \in DOMAIN files THEN "true" ELSE "false")
    /\ UNCHANGED <<nextFile, nextFolder>>

RemoveFolderBySlot(slot) ==
    /\ ~panicked
    /\ Leaves(remove_folder_by_slot(self, slot, debug_assertions),
              "remove_folder_by_slot", <<>>, SlotFolder(slot), "NotAsked", "Ok")
    /\ UNCHANGED <<nextFile, nextFolder>>

Retain(keep) ==
    /\ ~panicked
    /\ Leaves(retain(self, keep, debug_assertions), "retain", <<>>, NoSlot,
              "NotAsked", "Ok")
    /\ UNCHANGED <<nextFile, nextFolder>>

Clear ==
    /\ ~panicked
    /\ nextFolder <= MaxFolderKey
    /\ Leaves(clear(self, nextFolder), "clear", <<>>, NoSlot, "NotAsked", "Ok")
    /\ nextFolder' = nextFolder + 1
    /\ UNCHANGED nextFile

NormalizeNames ==
    /\ ~panicked
    /\ Leaves(normalize_names(self), "normalize_names", <<>>, NoSlot,
              "NotAsked", "Ok")
    /\ UNCHANGED <<nextFile, nextFolder>>

Next ==
    \/ \E mp \in MountPoints : Mount(mp)
    \/ \E slot \in 1..(nextFile - 1) : RemoveFileBySlot(slot)
    \/ \E slot \in 1..(nextFolder - 1) : RemoveFolderBySlot(slot)
    \/ \E keep \in SUBSET (1..Len(mounts)) : Retain(keep)
    \/ Clear
    \/ NormalizeNames

Spec == Init /\ [][Next]_vars

(***************************************************************************)
(* What the properties are stated with.                                    *)
(***************************************************************************)
\* The paths looked up: every sequence of at most three components over the
\* names in use (and "c", which names nothing), with and without a leading
\* slash, and "//".
RECURSIVE to_vpath(_)
to_vpath(comps) ==
    IF comps = <<>> THEN <<>>
    ELSE IF Len(comps) = 1 THEN Head(comps)
    ELSE Head(comps) \o <<"/">> \o to_vpath(Tail(comps))

TopNames == {<<"a">>, <<"A">>, <<"b">>, <<"c">>}
MidNames == {<<"x">>, <<"X">>, <<"d">>}
LowNames == {<<"y">>, <<"Y">>}

ComponentSeqs ==
    {<<>>} \cup {<<t>> : t \in TopNames}
           \cup {<<t, m>> : t \in TopNames, m \in MidNames}
           \cup {<<t, m, l>> : t \in TopNames, m \in MidNames, l \in LowNames}

LookupPaths ==
    {to_vpath(c) : c \in ComponentSeqs}
    \cup {<<"/">> \o to_vpath(c) : c \in ComponentSeqs}
    \cup {<<"/", "/">>}

\* The live folders below folder s.
RECURSIVE Descendants(_, _)
Descendants(v, s) ==
    LET kids == {k \in Range(v.folders[s].subfolders) : k \in DOMAIN v.folders}
    IN kids \cup UNION {Descendants(v, k) : k \in kids}

\* The live files in folder s and in the folders below it.
SubtreeFiles(v, s) ==
    {f \in DOMAIN v.files :
        \E o \in Descendants(v, s) \cup {s} : f \in Range(v.folders[o].files)}

\* The path of a live folder, from the names along its parents.
RECURSIVE FolderPath(_, _)
FolderPath(v, s) ==
    IF s = v.root \/ v.folders[s].parent \notin DOMAIN v.folders THEN <<>>
    ELSE FolderPath(v, v.folders[s].parent) \o <<"/">> \o v.folders[s].name

\* The path of a live file.
FilePath(v, f) ==
    IF v.files[f].parent \notin DOMAIN v.folders THEN <<"/">> \o v.files[f].name
    ELSE FolderPath(v, v.files[f].parent) \o <<"/">> \o v.files[f].name

(***************************************************************************)
(* C1 .. C10                                                               *)
(***************************************************************************)

\* C1: after every public mutating operation that returned, every folder
\* of the folder arena other than the root has a live parent whose
\* subfolders contain it, and every file of the file arena has a live
\* parent whose files contain it.
C1_BidirectionalConsistency ==
    ~panicked =>
        /\ \A o \in DOMAIN folders \ {root} :
              /\ folders[o].parent \in DOMAIN folders
              /\ o \in Range(folders[folders[o].parent].subfolders)
        /\ \A f \in DOMAIN files :
              /\ files[f].parent \in DOMAIN folders
              /\ f \in Range(folders[files[f].parent].files)

\* C2: in every state reached by calls that returned, lookup of any path
\* returns a live file, a live folder or None and never indexes an arena
\* with a stale slot: every slot in a live folder's files or subfolders
\* names a live entry.
C2_LookupTotal ==
    ~panicked =>
        /\ \A p \in LookupPaths : \A r \in lookup(self, p) :
              \/ r.tag = "None"
              \/ r.tag = "File" /\ r.slot \in DOMAIN files
              \/ r.tag = "Folder" /\ r.slot \in DOMAIN folders
        /\ \A o \in DOMAIN folders :
              /\ Range(folders[o].files) \subseteq DOMAIN files
              /\ Range(folders[o].subfolders) \subseteq DOMAIN folders

\* C3: remove_folder_by_slot(s) on a non-root folder whose subtree holds N
\* files and M folders below s lowers file_count() by N and folder_count()
\* by M + 1, and afterwards the path of s and of every former descendant
\* looks up to None.
C3_RemoveFolderComplete ==
    [][(last'.op = "remove_folder_by_slot" /\ last'.res = "Ok") =>
        LET s == last'.slot.slot
            below == Descendants(self, s)
            inside == SubtreeFiles(self, s)
            paths == {FolderPath(self, o) : o \in below \cup {s}}
                     \cup {FilePath(self, f) : f \in inside}
        IN /\ file_count(self') = file_count(self) - Cardinality(inside)
           /\ folder_count(self') =
                  folder_count(self) - (Cardinality(below) + 1)
           /\ \A p \in paths : lookup(self', p) = {RefNone}]_vars

\* C4: remove_file_by_slot(f) on a live file returns true, lowers
\* file_count() by one and takes f out of its parent's files, which then
\* hold live file slots only.
C4_RemoveFileDetaches ==
    [][(last'.op = "remove_file_by_slot"
        /\ last'.slot.slot \in DOMAIN files) =>
        LET f == last'.slot.slot
            parent == files[f].parent
        IN /\ last'.res = "true"
           /\ file_count(self') = file_count(self) - 1
           /\ f \notin DOMAIN files'
           /\ parent \in DOMAIN folders' =>
                 /\ f \notin Range(folders'[parent].files)
                 /\ (Range(folders[parent].files) \subseteq DOMAIN files
                       => Range(folders'[parent].files) \subseteq DOMAIN files')
       ]_vars

\* C5: right after remove_folder_by_slot(s) the slot s, and every folder and
\* file slot of its subtree, is invalid; right after remove_file_by_slot(f)
\* the slot f is invalid; after retain the root slot of every mount it
\* removed is invalid.
C5_RemovedSlotsInvalid ==
    [][/\ (last'.op = "remove_folder_by_slot" /\ last'.res = "Ok") =>
            LET s == last'.slot.slot
            IN /\ ~folder_exists(self', s)
               /\ get_folder(self', s) = NONE
               /\ \A o \in Descendants(self, s) : ~folder_exists(self', o)
               /\ \A f \in SubtreeFiles(self, s) : ~file_exists(self', f)
       /\ (last'.op = "remove_file_by_slot" /\ last'.res # "panic") =>
            ~file_exists(self', last'.slot.slot)
       /\ (last'.op = "retain" /\ last'.res = "Ok") =>
            \A i \in 1..Len(mounts) :
                (\A j \in 1..Len(mounts') : mounts'[j] # mounts[i]) =>
                    IF mounts[i].root.tag = "File"
                    THEN ~file_exists(self', mounts[i].root.slot)
                    ELSE ~folder_exists(self', mounts[i].root.slot)
      ]_vars

\* C6: when mount(R, M) returns the error of a builder that had inserted a
\* partial file or folder at M, lookup(M) returns None and no entry of the
\* mount table has mount point M.
C6_RollbackNothingAddressable ==
    (last.op = "mount" /\ last.res \in BuilderErrors
     /\ last.slot.tag \in {"File", "Folder"}) =>
        /\ lookup(self, last.mp) = {RefNone}
        /\ \A i \in 1..Len(mounts) : mounts[i].mount_point # last.mp

\* C7: when mount(R, M) returns a builder's error, file_count(),
\* folder_count(), the root's files and subfolders, the mount table and every
\* entry that existed before are as they were before the call.
C7_FailedMountLeavesNoTrace ==
    [][(last'.op = "mount" /\ last'.res \in BuilderErrors) =>
        /\ file_count(self') = file_count(self)
        /\ folder_count(self') = folder_count(self)
        /\ root' = root
        /\ folders'[root'].files = folders[root].files
        /\ folders'[root'].subfolders = folders[root].subfolders
        /\ mounts' = mounts
        /\ \A f \in DOMAIN files : f \in DOMAIN files' /\ files'[f] = files[f]
        /\ \A o \in DOMAIN folders :
              o \in DOMAIN folders' /\ folders'[o] = folders[o]]_vars

\* C8: mount(R, M) returns MountPointEmpty when M is empty,
\* MountPointInvalidChars when M contains '/', '\' or '*', and
\* MountPointDuplicate when M equals a registered mount point ignoring ASCII
\* case; the physical path has not been canonicalized by then, and the
\* arenas, the root's children and the mount table are unchanged.
C8_MountPointValidation ==
    [][last'.op = "mount" =>
        LET M == last'.mp
            empty == M = <<>>
            invalid == \E i \in DOMAIN M : M[i] = "/" \/ M[i] = "\\" \/ M[i] = "*"
            fold(c) == CASE c = "A" -> "a" [] c = "B" -> "b" [] OTHER -> c
            same(t) == /\ Len(t) = Len(M)
                       /\ \A i \in DOMAIN M : fold(t[i]) = fold(M[i])
            duplicate == \E i \in DOMAIN mounts : same(mounts[i].mount_point)
            rejected == {"MountPointEmpty", "MountPointInvalidChars",
                         "MountPointDuplicate"}
        IN /\ empty => last'.res = "MountPointEmpty"
           /\ (~empty /\ invalid) => last'.res = "MountPointInvalidChars"
           /\ (~empty /\ ~invalid /\ duplicate) =>
                 last'.res = "MountPointDuplicate"
           /\ (~empty /\ ~invalid /\ ~duplicate) => last'.res \notin rejected
           /\ last'.res \in rejected =>
                 /\ last'.os = "NotAsked"
                 /\ UNCHANGED <<root, mounts, files, folders>>
                 /\ UNCHANGED <<nextFile, nextFolder>>]_vars

\* C8, the case: a mount at "A" was rejected as a duplicate of the
\* registered mount point "a".
C8_Witness ==
    /\ last.op = "mount"
    /\ last.mp = <<"A">>
    /\ last.res = "MountPointDuplicate"
    /\ \E i \in DOMAIN mounts : mounts[i].mount_point = <<"a">>
    /\ file_count(self) > 0

\* C9: for a valid, non-colliding mount point, a failed canonicalization
\* makes mount return Canonicalize and a canonical path that is a symbolic
\* link makes it return MountSymlink; the builder has not run (no key was
\* handed out) and the arenas, the root's children and the mount table are
\* unchanged.
C9_RealPathValidation ==
    [][last'.op = "mount" =>
        /\ last'.os = "CanonFail" <=> last'.res = "Canonicalize"
        /\ last'.os = "Symlink" <=> last'.res = "MountSymlink"
        /\ (mount_point_check(self, last'.mp) = "Ok") <=> last'.os # "NotAsked"
        /\ last'.res \in {"Canonicalize", "MountSymlink"} =>
              /\ UNCHANGED <<root, mounts, files, folders>>
              /\ UNCHANGED <<nextFile, nextFolder>>]_vars

\* C9, the case: with a mount registered, a mount at another valid point was
\* rejected because the canonical path is a symbolic link.
C9_Witness ==
    /\ last.op = "mount"
    /\ last.os = "Symlink"
    /\ last.res = "MountSymlink"
    /\ mount_point_check(self, last.mp) = "Ok"
    /\ Len(mounts) > 0

\* C10: a successful mount(R, M) appends exactly one MountInfo with mount
\* point M to the mount table, leaves the entries before it as they were,
\* and afterwards lookup(M) resolves to the entry recorded as its root.
C10_MountRegistersAndResolves ==
    [][(last'.op = "mount" /\ last'.res = "Ok") =>
        /\ Len(mounts') = Len(mounts) + 1
        /\ SubSeq(mounts', 1, Len(mounts)) = mounts
        /\ mounts'[Len(mounts')].mount_point = last'.mp
        /\ lookup(self', last'.mp) = {mounts'[Len(mounts')].root}]_vars

(***************************************************************************)
(* C11 .. C20                                                              *)
(***************************************************************************)

\* C11: after any sequence of calls that returned, the root slot of every
\* MountInfo of the mount table names a live entry of its arena: a file
\* root in the file arena, a folder root in the folder arena.
C11_MountRootsLive ==
    ~panicked =>
        \A i \in DOMAIN mounts :
            IF mounts[i].root.tag = "File"
            THEN mounts[i].root.slot \in DOMAIN files
            ELSE mounts[i].root.slot \in DOMAIN folders

\* C12: after clear() file_count() is 0, folder_count() is 1, the root
\* folder has no files and no subfolders, and every path with at least one
\* component looks up to None.
C12_ClearResets ==
    last.op = "clear" =>
        /\ file_count(self) = 0
        /\ folder_count(self) = 1
        /\ folders[root].files = <<>>
        /\ folders[root].subfolders = <<>>
        /\ \A c \in ComponentSeqs \ {<<>>} :
              lookup(self, to_vpath(c)) = {RefNone}

\* C13: after clear() the mount table is empty, and a mount right after it
\* is not rejected with MountPointDuplicate, whatever mount point was in use
\* before the clear.
C13_ClearUnregistersMounts ==
    [][/\ last'.op = "clear" => mounts' = <<>>
       /\ (last.op = "clear" /\ last'.op = "mount") =>
              last'.res # "MountPointDuplicate"]_vars

\* C14: after every public operation the slot in VirtualFs.root names a live
\* folder whose parent is None and whose kind is Root; remove_folder_by_slot
\* with the root slot is rejected by the assertion before the arenas or the
\* mount table are touched.
C14_RootAlwaysExists ==
    [][/\ root' \in DOMAIN folders'
       /\ folders'[root'].parent = NONE
       /\ folders'[root'].kind = "Root"
       /\ (last'.op = "remove_folder_by_slot" /\ last'.slot.slot = root) =>
              /\ last'.res = "panic"
              /\ UNCHANGED <<root, mounts, files, folders>>]_vars

\* C14, the case: after a clear (the root has a new key) and a mount,
\* remove_folder_by_slot was called with the root slot.
C14_Witness ==
    /\ last.op = "remove_folder_by_slot"
    /\ last.slot.slot = root
    /\ root # 1
    /\ Len(mounts) > 0
    /\ panicked

\* The component sequence with every ASCII letter in lower case.
LowerCased(c) ==
    [i \in DOMAIN c |->
        [j \in DOMAIN c[i] |->
            CASE c[i][j] = "A" -> "a" [] c[i][j] = "X" -> "x"
              [] c[i][j] = "Y" -> "y" [] OTHER -> c[i][j]]]

\* For each path of ComponentSeqs: its components, those of the path with a
\* leading slash, and those of the path in lower case.
C15_Cases ==
    {<<components(to_vpath(c)),
       components(<<"/">> \o to_vpath(c)),
       components(to_vpath(LowerCased(c)))>> : c \in ComponentSeqs}

\* C15: in every state, two paths whose component sequences are equal
\* ignoring ASCII case, with or without a leading slash, look up to the same
\* result: each path, and the path with a leading slash, looks up to what
\* its lower-case form does (lookup(self, p) being
\* lookup_recur(self, root, components(p)), paths that have the same
\* components are not looked up twice).
C15_LookupIgnoresCase ==
    \A t \in C15_Cases :
        /\ \/ t[1] = t[3]
           \/ lookup_recur(self, root, t[1]) = lookup_recur(self, root, t[3])
        /\ \/ t[2] = t[1]
           \/ lookup_recur(self, root, t[2]) = lookup_recur(self, root, t[1])

\* C15, the case: the file stored as "X" in the folder mounted at "a" is
\* what "/A/x" and "a/X" both look up to.
C15_Witness ==
    \E f \in DOMAIN files :
        /\ files[f].name = <<"X">>
        /\ files[f].parent \in DOMAIN folders
        /\ folders[files[f].parent].name = <<"a">>
        /\ lookup(self, <<"/", "A", "/", "x">>) = {RefFile(f)}
        /\ lookup(self, <<"a", "/", "X">>) = {RefFile(f)}

\* The folders reached from the folders of S by matching, component by
\* component, the name of a live subfolder.
RECURSIVE Reached(_, _)
Reached(S, c) ==
    IF c = <<>> THEN S
    ELSE Reached({k \in UNION {Range(folders[s].subfolders) : s \in S} :
                     /\ k \in DOMAIN folders
                     /\ LowerCased(<<folders[k].name>>) = LowerCased(<<Head(c)>>)},
                 Tail(c))

\* The component sequences of ComponentSeqs that are in lower case.
C16_Cases == {c \in ComponentSeqs : c = LowerCased(c)}

\* C16: a path with no components ("", "/", "//") looks up to the root
\* folder; a lookup that returns a folder returns one reached by subfolder
\* matches on all components, and when every subfolder slot is live and the
\* components lead to one folder, that folder is the result.
C16_LookupReturnsFolderReached ==
    /\ \A p \in {<<>>, <<"/">>, <<"/", "/">>} :
          lookup(self, p) = {RefFolder(root)}
    /\ \A c \in C16_Cases :
          LET result == lookup_recur(self, root, c)
              reached == Reached({root}, c)
          IN /\ \A r \in result : r.tag = "Folder" => r.slot \in reached
             /\ (/\ Cardinality(reached) = 1
                 /\ \A o \in DOMAIN folders :
                       Range(folders[o].subfolders) \subseteq DOMAIN folders)
                    => result = {RefFolder(t) : t \in reached}

\* C16, the case: "/" looks up to the root, and "A/d" to the subfolder "d"
\* of the folder mounted at "a".
C16_Witness ==
    /\ lookup(self, <<"/">>) = {RefFolder(root)}
    /\ \E o \in DOMAIN folders :
          /\ o # root
          /\ folders[o].name = <<"d">>
          /\ lookup(self, <<"A", "/", "d">>) = {RefFolder(o)}

\* C17: at any folder, a component that matches no subfolder but matches
\* (ignoring ASCII case) a file of the folder makes the lookup return that
\* file, whether or not components remain; one that matches neither a
\* subfolder nor a file makes it return None.
C17_PermissiveFileMatch ==
    ~panicked =>
        \A o \in DOMAIN folders :
        \A n \in TopNames \cup MidNames \cup LowNames :
        \A rest \in {<<>>, <<<<"y">>>>, <<<<"d">>, <<"y">>>>} :
            LET same(t) == LowerCased(<<t>>) = LowerCased(<<n>>)
                subHit == \E k \in Range(folders[o].subfolders)
                                     \cap DOMAIN folders : same(folders[k].name)
                fileHits == {f \in Range(folders[o].files) \cap DOMAIN files :
                                same(files[f].name)}
                result == lookup_recur(self, o, <<n>> \o rest)
            IN ~subHit =>
                 IF fileHits # {}
                 THEN \E f \in fileHits : result = {RefFile(f)}
                 ELSE result = {RefNone}

(***************************************************************************)
(* The two searches of lookup_recur over the files of one folder.  The     *)
(* initial states are the folders a mounted directory can be: its files    *)
(* set holds distinct slots, in any order, each either a live file with a  *)
(* name or a slot whose file was removed; two files of a directory may     *)
(* have names that differ in case only.  A folder of the model stands for  *)
(* one on either side of PAR_THRESHOLD: each action runs one arm of the    *)
(* match on it and records the outcome.                                    *)
(***************************************************************************)
\* The folder searched: the root of the mount at "b".
SearchFolder == 2

SearchNames == {<<"x">>, <<"X">>, <<"y">>}

\* The names looked for: those in use and "c", which names nothing.
SearchProbes == SearchNames \cup {<<"c">>}

\* The sequences of distinct file slots.
SlotSeqs ==
    UNION {{fs \in [1..n -> 1..MaxFileKey] :
               \A i, j \in 1..n : i # j => fs[i] # fs[j]} : n \in 0..MaxFileKey}

SearchInit ==
    /\ root = 1
    /\ mounts = <<MountInfo("Dir", <<"b">>, SlotFolder(SearchFolder), "Directory")>>
    /\ \E fs \in SlotSeqs :
       \E lv \in SUBSET Range(fs) :
          /\ files \in [lv -> {VFile(n, SearchFolder) : n \in SearchNames}]
          /\ folders = (1 :> VFolder(<<"/">>, NONE, <<>>, <<SearchFolder>>, "Root"))
                       @@ (SearchFolder :> VFolder(<<"b">>, 1, fs, <<>>, "Directory"))
    /\ nextFile = MaxFileKey + 1
    /\ nextFolder = SearchFolder + 1
    /\ debug_assertions \in BOOLEAN
    /\ panicked = FALSE
    /\ last = Call("mount", <<"b">>, NoSlot, "Plain", "Ok")
    /\ reading = NoReading
    /\ frame = NoFrame

\* The outcome o of a search for pcomp is recorded; a panic ends the program.
Searched(op, pcomp, o) ==
    /\ ~panicked
    /\ last' = Call(op, pcomp,
                    IF o.tag = "Some" THEN SlotFile(o.slot) ELSE NoSlot,
                    "NotAsked", o.tag)
    /\ panicked' = (o.tag = "Panic")
    /\ UNCHANGED <<root, mounts, files, folders, nextFile, nextFolder,
                   debug_assertions, reading, frame>>

\* The arm `0..=4096`: the sequential scan.
SequentialScan(pcomp) ==
    Searched("find_map", pcomp,
             find_map(folders[SearchFolder].files, files, pcomp))

\* The arm `_`: the parallel search, whose outcome is any of the possible ones.
ParallelSearch(pcomp) ==
    \E o \in find_map_any(folders[SearchFolder].files, files, pcomp) :
        Searched("find_map_any", pcomp, o)

SearchNext ==
    \E pcomp \in SearchProbes :
        \/ SequentialScan(pcomp)
        \/ ParallelSearch(pcomp)

SpecSearch == SearchInit /\ [][SearchNext]_vars

\* Every slot of the searched folder's files set is a live file, and the
\* names of the files are pairwise distinct ignoring ASCII case.
DistinctNames ==
    LET fs == Range(folders[SearchFolder].files)
    IN /\ fs \subseteq DOMAIN files
       /\ \A f, g \in fs :
             f # g => LowerCased(<<files[f].name>>) # LowerCased(<<files[g].name>>)

MountFiles(v, rt) ==
    IF rt.tag = "File" THEN {rt.slot} \cap DOMAIN v.files
    ELSE IF rt.slot \in DOMAIN v.folders THEN SubtreeFiles(v, rt.slot)
    ELSE {}

MountFolders(v, rt) ==
    IF rt.tag = "Folder" /\ rt.slot \in DOMAIN v.folders
    THEN Descendants(v, rt.slot) \cup {rt.slot}
    ELSE {}

\* C19: retain(pred) returns Ok and leaves the mount table equal to a
\* subsequence of the previous table, in the same order (the entries that
\* satisfy pred), and the files and folders of the subtree of every mount
\* still in the table are what they were.
C19_RetainKeepsRetained ==
    [][last'.op = "retain" =>
          /\ last'.res = "Ok"
          /\ \E keep \in SUBSET (1..Len(mounts)) :
                mounts' = select_from(mounts, keep, 1)
          /\ \A i \in DOMAIN mounts' :
                /\ \A f \in MountFiles(self, mounts'[i].root) :
                      f \in DOMAIN files' /\ files'[f] = files[f]
                /\ \A o \in MountFolders(self, mounts'[i].root) :
                      o \in DOMAIN folders' /\ folders'[o] = folders[o]]_vars

\* C20: retain(pred) removes the subtree of every mount it drops as explicit
\* removal would: file_count() and folder_count() decrease by the number of
\* files and folders of those subtrees (the root folder of a folder mount
\* included), the root folder's files and subfolders no longer contain the
\* roots of the dropped mounts, and lookup of each dropped mount point
\* returns None.
C20_RetainRemovesDropped ==
    [][(last'.op = "retain" /\ last'.res = "Ok") =>
          LET dropped == {i \in DOMAIN mounts : mounts[i] \notin Range(mounts')}
              gone_files == UNION {MountFiles(self, mounts[i].root) : i \in dropped}
              gone_folders == UNION {MountFolders(self, mounts[i].root) : i \in dropped}
          IN /\ Cardinality(DOMAIN files')
                    = Cardinality(DOMAIN files) - Cardinality(gone_files)
             /\ Cardinality(DOMAIN folders')
                    = Cardinality(DOMAIN folders) - Cardinality(gone_folders)
             /\ \A i \in dropped :
                   /\ mounts[i].root.tag = "File" =>
                         mounts[i].root.slot \notin Range(folders'[root'].files)
                   /\ mounts[i].root.tag = "Folder" =>
                         mounts[i].root.slot \notin Range(folders'[root'].subfolders)
                   /\ lookup(self', mounts[i].mount_point) = {RefNone}]_vars

(***************************************************************************)
(* Readers and ingestion.  A file of this part has, besides its name and   *)
(* parent, a reader, a span and a compression.  A reader is an Arc: `arc`  *)
(* is its address, shared by the files that hold the same instance; it is  *)
(* an open file handle or a buffer in memory.  A buffer is the bytes       *)
(* lo..hi of a content: the physical file `src`, or what the compressed    *)
(* entry at offset `at` of `src` inflates to.                              *)
(***************************************************************************)
\* Lengths and offsets are counted in blocks of 2^27 bytes.  A u32 counts
\* 2^32 bytes, that is 32 blocks: `bytes.len() as u32` keeps the length
\* modulo this.
U32_MOD == 32

as_u32(n) == n % U32_MOD

\* Length, in blocks, of the physical files behind the handles.
PhysicalLen == 16

\* The open file handles.
Handles == {1, 2}

Buffer(kind, src, at, lo, hi) ==
    [kind |-> kind, src |-> src, at |-> at, lo |-> lo, hi |-> hi]

NoBytes == Buffer("none", 0, 0, 0, 0)

buf_len(b) == b.hi - b.lo

\* &bytes[span]
slice(b, span) == [b EXCEPT !.lo = b.lo + span[1], !.hi = b.lo + span[2]]

ReaderFile(arc) == [arc |-> arc, tag |-> "File", bytes |-> NoBytes]

ReaderMemory(arc, bytes) == [arc |-> arc, tag |-> "Memory", bytes |-> bytes]

VFileOf(name, parent, reader, span, compression) ==
    [name |-> name, parent |-> parent, reader |-> reader, span |-> span,
     compression |-> compression]

IoOk(b) == [tag |-> "Ok", bytes |-> b]

IoErr(e) == [tag |-> e, bytes |-> NoBytes]

\* Reader::read_from_file: seek to the start of the span and read it.  The
\* sector at offset 8 of every physical file cannot be read.
read_from_file(fh, span) ==
    IF span[1] = 8 \/ span[2] > PhysicalLen THEN IoErr("FileRead")
    ELSE IoOk(Buffer("disk", fh, 0, span[1], span[2]))

\* What the compressed entry at the start of physical file src inflates to:
\* nine blocks in the first file, five more than a u32 can count in the other.
InflatedLen(src) == IF src = 1 THEN 9 ELSE U32_MOD + 5

\* detail::decompress: the inverse of the compression.  The compressed entry
\* at the start of a file is well formed, the others are corrupt.
decompress(b, compression) ==
    IF compression = "None" THEN IoOk(b)
    ELSE IF b.kind = "disk" /\ b.lo = 0
         THEN IoOk(Buffer("inflated", b.src, b.lo, 0, InflatedLen(b.src)))
         ELSE IoErr("Decompress")

\* FileRef::lock, Guard::read: the span of the reader's content, decompressed.
read(v, slot) ==
    LET vfile == v.files[slot]
        raw == IF vfile.reader.tag = "File"
               THEN read_from_file(vfile.reader.arc, vfile.span)
               ELSE IF vfile.span[2] > buf_len(vfile.reader.bytes)
                    THEN IoErr("FileRead")
                    ELSE IoOk(slice(vfile.reader.bytes, vfile.span))
    IN IF vfile.span[1] = vfile.span[2] THEN IoErr("EmptyRead")
       ELSE IF raw.tag # "Ok" THEN raw
       ELSE decompress(raw.bytes, vfile.compression)

\* fn ingest: None for a memory reader and for a failed read or decompression.
ingest(reader, orig_span, compression) ==
    IF reader.tag = "Memory" THEN [tag |-> "None", bytes |-> NoBytes]
    ELSE LET result == read_from_file(reader.arc, orig_span)
             bytes == IF result.tag = "Ok"
                      THEN decompress(result.bytes, compression)
                      ELSE result
         IN IF bytes.tag = "Ok" THEN [tag |-> "Some", bytes |-> bytes.bytes]
            ELSE [tag |-> "None", bytes |-> NoBytes]

\* Arc::new: an address that no live reader has (those of the files and the
\* one the guard keeps alive).
arc_new(v, guard) ==
    LET used == {v.files[k].reader.arc : k \in DOMAIN v.files} \cup {guard.arc}
    IN 1 + CHOOSE m \in used : \A a \in used : a <= m

\* An `if let Some(bytes) = ingest(..)` that also resets span and compression
\* when ingest returned None.
ingest_file_resets_on_none(v, vfile, guard) ==
    LET o == ingest(guard, vfile.span, vfile.compression)
    IN IF o.tag = "Some"
       THEN [vfile EXCEPT !.span = <<0, as_u32(buf_len(o.bytes))>>,
                          !.reader = ReaderMemory(arc_new(v, guard), o.bytes),
                          !.compression = "None"]
       ELSE [vfile EXCEPT !.span = <<0, 0>>, !.compression = "None"]

\* The `if let Some(bytes) = ingest(&mut guard, ..)` of ingest_all, for the
\* first file and for the others: guard is the reader that is locked.
ingest_file(v, vfile, guard) ==
    LET o == ingest(guard, vfile.span, vfile.compression)
    IN IF o.tag = "Some"
       THEN [vfile EXCEPT !.span = <<0, as_u32(buf_len(o.bytes))>>,
                          !.reader = ReaderMemory(arc_new(v, guard), o.bytes),
                          !.compression = "None"]
       ELSE vfile

\* SlotMap::values_mut: the keys in the order of the arena.
RECURSIVE values_order(_)
values_order(S) ==
    IF S = {} THEN <<>>
    ELSE LET m == CHOOSE k \in S : \A j \in S : k <= j
         IN <<m>> \o values_order(S \ {m})

\* `for vfile in vfiles`: the lock is taken again only when the reader is
\* not the one of the file before.
RECURSIVE ingest_rest(_, _, _, _)
ingest_rest(v, slots, guard, prev_arc) ==
    IF slots = <<>> THEN v
    ELSE LET vfile == v.files[Head(slots)]
             arc_ptr == vfile.reader.arc
             g == IF arc_ptr # prev_arc THEN vfile.reader ELSE guard
         IN ingest_rest([v EXCEPT !.files[Head(slots)] = ingest_file(v, vfile, g)],
                        Tail(slots), g, arc_ptr)

ingest_all(v) ==
    LET vfiles == values_order(DOMAIN v.files)
    IN IF vfiles = <<>> THEN v
       ELSE LET vfile0 == v.files[Head(vfiles)]
                guard == vfile0.reader
            IN ingest_rest([v EXCEPT !.files[Head(vfiles)] =
                                         ingest_file(v, vfile0, guard)],
                           Tail(vfiles), guard, vfile0.reader.arc)

(***************************************************************************)
(* Ingestion of a mounted archive.  The initial states are the archives    *)
(* mounted at "b" with a file in every slot: each file is either in memory *)
(* already, or an entry of one of the two physical files, stored or        *)
(* compressed, at one of three spans.                                      *)
(***************************************************************************)
\* The folder of the archive: the root of the mount at "b".
ArchiveFolder == 2

EntryNames == <<<<"x">>, <<"Y">>, <<"d">>, <<"a">>, <<"B">>>>

EntrySpans == {<<0, 4>>, <<4, 8>>, <<8, 12>>}

\* What a file of the archive can be: in memory, or an entry of a
\* physical file.
EntryShapes ==
    {[tag |-> "File", fh |-> fh, span |-> span, compression |-> c] :
        fh \in Handles, span \in EntrySpans, c \in {"None", "Deflate"}}
    \cup {[tag |-> "Memory", fh |-> 0, span |-> <<0, 4>>, compression |-> "None"]}

\* File k of the archive, of shape e.
Entry(k, e) ==
    VFileOf(EntryNames[k], ArchiveFolder,
            IF e.tag = "File" THEN ReaderFile(e.fh)
            ELSE ReaderMemory(2 + k, Buffer("memory", k, 0, 0, 4)),
            e.span, e.compression)

IngestInit ==
    /\ root = 1
    /\ mounts = <<MountInfo("Zip", <<"b">>, SlotFolder(ArchiveFolder), "Zip")>>
    /\ \E shape \in [1..MaxFileKey -> EntryShapes] :
          files = [k \in 1..MaxFileKey |-> Entry(k, shape[k])]
    /\ folders = (1 :> VFolder(<<"/">>, NONE, <<>>, <<ArchiveFolder>>, "Root"))
                 @@ (ArchiveFolder :>
                        VFolder(<<"b">>, 1, [k \in 1..MaxFileKey |-> k], <<>>, "Zip"))
    /\ nextFile = MaxFileKey + 1
    /\ nextFolder = ArchiveFolder + 1
    /\ debug_assertions \in BOOLEAN
    /\ panicked = FALSE
    /\ last = Call("mount", <<"b">>, NoSlot, "Plain", "Ok")
    /\ reading = NoReading
    /\ frame = NoFrame

IngestAll ==
    /\ ~panicked
    /\ Leaves(ingest_all(self), "ingest_all", <<>>, NoSlot, "NotAsked", "Ok")
    /\ UNCHANGED <<nextFile, nextFolder>>

IngestNext ==
    \/ IngestAll
    \/ NormalizeNames

SpecIngest == IngestInit /\ [][IngestNext]_vars

(***************************************************************************)
(* C21 .. C30                                                              *)
(***************************************************************************)

\* The length a reader addresses: that of its buffer, or of its physical file.
AddressableLen(reader) ==
    IF reader.tag = "Memory" THEN buf_len(reader.bytes) ELSE PhysicalLen

\* C21: after ingest_all, every file that was backed by a physical reader
\* and whose read and decompression succeed has a memory reader that no
\* other file holds, whose bytes are exactly the decompressed bytes, its
\* span is 0..the length of that buffer and its compression is None; and
\* every file's span lies within the addressable length of its reader.
C21_IngestPostcondition ==
    [][last'.op = "ingest_all" =>
          /\ \A f \in DOMAIN files :
                (files[f].reader.tag = "File" /\ read(self, f).tag = "Ok") =>
                    /\ files'[f].reader.tag = "Memory"
                    /\ \A g \in DOMAIN files' \ {f} :
                          files'[g].reader.arc # files'[f].reader.arc
                    /\ files'[f].reader.bytes = read(self, f).bytes
                    /\ files'[f].span = <<0, buf_len(read(self, f).bytes)>>
                    /\ files'[f].compression = "None"
          /\ \A f \in DOMAIN files' :
                files'[f].span[2] <= AddressableLen(files'[f].reader)]_vars

\* C22: a second ingest_all in a row leaves every file's reader, span and
\* compression as the first call left them, and reading a file that a call
\* ingested returns after the call the bytes it returned before.
C22_IngestIdempotent ==
    [][/\ (last.op = "ingest_all" /\ last'.op = "ingest_all") => files' = files
       /\ last'.op = "ingest_all" =>
             \A f \in DOMAIN files :
                 (files[f].reader.tag = "File" /\ files'[f].reader.tag = "Memory")
                     => read(self', f) = read(self, f)]_vars

C24_NormalizeKeepsLookup ==
    [][last'.op = "normalize_names" =>
          /\ root' = root /\ mounts' = mounts
          /\ DOMAIN files' = DOMAIN files /\ DOMAIN folders' = DOMAIN folders
          /\ \A f \in DOMAIN files :
                files'[f] = [files[f] EXCEPT
                                !.name = LowerCased(<<files[f].name>>)[1]]
          /\ \A o \in DOMAIN folders :
                folders'[o] = [folders[o] EXCEPT
                                  !.name = LowerCased(<<folders[o].name>>)[1]]
          /\ \A c \in ComponentSeqs :
                lookup_recur(self', root', c) = lookup_recur(self, root, c)
          /\ \A p \in {<<"/">>, <<"/", "A", "/", "x">>} :
                lookup(self', p) = lookup(self, p)]_vars

\* C24, the case: the folder mounted at "A" is now named "a", its file "X"
\* is now named "x", and "A/X" still looks up to that file.
C24_Witness ==
    /\ last.op = "normalize_names"
    /\ \E i \in DOMAIN mounts :
          /\ mounts[i].mount_point = <<"A">>
          /\ mounts[i].root.tag = "Folder"
          /\ mounts[i].root.slot \in DOMAIN folders
          /\ folders[mounts[i].root.slot].name = <<"a">>
          /\ \E f \in DOMAIN files :
                /\ files[f].name = <<"x">>
                /\ files[f].parent = mounts[i].root.slot
                /\ lookup(self, <<"A", "/", "X">>) = {RefFile(f)}

(***************************************************************************)
(* Reading.  The callers read the files of a mounted archive through       *)
(* shared references to the VirtualFs: a caller locks the reader of a      *)
(* file, seeks the handle to the start of the file's span, reads the       *)
(* length of the span from where the cursor is, and releases the lock.     *)
(* The files with an odd slot are entries of the first physical file, the  *)
(* others of the second.                                                   *)
(***************************************************************************)
\* Number of callers that read at the same time.
NumCallers == 2

Callers == 1..NumCallers

\* File k of the archive that is read.
ReadEntry(k) ==
    Entry(k, [tag |-> "File", fh |-> IF k % 2 = 1 THEN 1 ELSE 2,
              span |-> IF k <= 2 THEN <<0, 4>> ELSE <<4, 8>>,
              compression |-> "None"])

ReadInit ==
    /\ root = 1
    /\ mounts = <<MountInfo("Wad", <<"b">>, SlotFolder(ArchiveFolder), "Wad")>>
    /\ files = [k \in 1..MaxFileKey |-> ReadEntry(k)]
    /\ folders = (1 :> VFolder(<<"/">>, NONE, <<>>, <<ArchiveFolder>>, "Root"))
                 @@ (ArchiveFolder :>
                        VFolder(<<"b">>, 1, [k \in 1..MaxFileKey |-> k], <<>>, "Wad"))
    /\ nextFile = MaxFileKey + 1
    /\ nextFolder = ArchiveFolder + 1
    /\ debug_assertions \in BOOLEAN
    /\ panicked = FALSE
    /\ last = Call("mount", <<"b">>, NoSlot, "Plain", "Ok")
    /\ reading = [locks |-> [fh \in Handles |-> [holder |-> 0, cursor |-> 0]],
                  callers |-> [t \in Callers |->
                                  [pc |-> "idle", file |-> 0, got |-> NoBytes]]]
    /\ frame = NoFrame

\* The reader that caller t works on.
reader_of(t) == files[reading.callers[t].file].reader.arc

\* Mutex::lock that returns at once, whether or not the lock is held.
LockWithoutWaiting(t, f) ==
    /\ reading.callers[t].pc = "idle"
    /\ f \in DOMAIN files
    /\ reading' = [reading EXCEPT
                      !.locks[files[f].reader.arc].holder = t,
                      !.callers[t] = [pc |-> "locked", file |-> f, got |-> NoBytes]]
    /\ UNCHANGED <<root, mounts, files, folders, nextFile, nextFolder,
                   debug_assertions, panicked, last, frame>>

\* FileRef::lock: returns when nobody holds the lock of the file's reader.
Lock(t, f) ==
    /\ reading.callers[t].pc = "idle"
    /\ f \in DOMAIN files
    /\ reading.locks[files[f].reader.arc].holder = 0
    /\ reading' = [reading EXCEPT
                      !.locks[files[f].reader.arc].holder = t,
                      !.callers[t] = [pc |-> "locked", file |-> f, got |-> NoBytes]]
    /\ UNCHANGED <<root, mounts, files, folders, nextFile, nextFolder,
                   debug_assertions, panicked, last, frame>>

\* Guard::read, first half: seek the handle to the start of the span.
Seek(t) ==
    /\ reading.callers[t].pc = "locked"
    /\ reading' = [reading EXCEPT
                      !.locks[reader_of(t)].cursor =
                          files[reading.callers[t].file].span[1],
                      !.callers[t].pc = "sought"]
    /\ UNCHANGED <<root, mounts, files, folders, nextFile, nextFolder,
                   debug_assertions, panicked, last, frame>>

\* Guard::read, second half: read the length of the span from the cursor.
ReadExact(t) ==
    /\ reading.callers[t].pc = "sought"
    /\ LET span == files[reading.callers[t].file].span
           cursor == reading.locks[reader_of(t)].cursor
           len == span[2] - span[1]
       IN reading' = [reading EXCEPT
                         !.locks[reader_of(t)].cursor = cursor + len,
                         !.callers[t].got =
                             Buffer("disk", reader_of(t), 0, cursor, cursor + len),
                         !.callers[t].pc = "read"]
    /\ UNCHANGED <<root, mounts, files, folders, nextFile, nextFolder,
                   debug_assertions, panicked, last, frame>>

\* The guard is dropped: the lock is released and the caller has its bytes.
Unlock(t) ==
    /\ reading.callers[t].pc = "read"
    /\ reading' = [reading EXCEPT !.locks[reader_of(t)].holder = 0,
                                  !.callers[t].pc = "idle"]
    /\ last' = Call("read", files[reading.callers[t].file].name,
                    SlotFile(reading.callers[t].file), "NotAsked", "Ok")
    /\ UNCHANGED <<root, mounts, files, folders, nextFile, nextFolder,
                   debug_assertions, panicked, frame>>

ReadNext ==
    \E t \in Callers :
        \/ \E f \in 1..MaxFileKey : Lock(t, f)
        \/ Seek(t)
        \/ ReadExact(t)
        \/ Unlock(t)

SpecRead == ReadInit /\ [][ReadNext]_vars

\* Caller t is between its lock and its unlock.
InRead(t) == reading.callers[t].pc \in {"locked", "sought", "read"}

\* C25: at most one caller at a time is between lock and unlock on one
\* reader, and it is the holder of that reader's lock; between a caller's
\* seek and its read the cursor of the handle stays at the start of its
\* file's span; and the bytes a caller has read are those of the span of
\* its own file.
C25_ReadsExclusive ==
    /\ \A t, u \in Callers :
          (t # u /\ InRead(t) /\ InRead(u)) => reader_of(t) # reader_of(u)
    /\ \A t \in Callers :
          LET vfile == files[reading.callers[t].file]
          IN /\ InRead(t) => reading.locks[reader_of(t)].holder = t
             /\ reading.callers[t].pc = "sought" =>
                   reading.locks[reader_of(t)].cursor = vfile.span[1]
             /\ (reading.callers[t].file # 0 /\ reading.callers[t].pc \in {"read", "idle"}) =>
                   reading.callers[t].got =
                       Buffer("disk", vfile.reader.arc, 0, vfile.span[1], vfile.span[2])

\* C25, the case: the first caller holds the lock of the first physical
\* file and has sought to the span of file 1, after the second caller read
\* file 3 through the same reader and got the bytes of the span of file 3.
C25_Witness ==
    /\ reading.callers[1].pc = "sought" /\ reading.callers[1].file = 1
    /\ reading.callers[2].pc = "idle" /\ reading.callers[2].file = 3
    /\ files[1].reader.arc = files[3].reader.arc
    /\ reading.locks[files[1].reader.arc].cursor = 0
    /\ reading.callers[2].got = Buffer("disk", files[3].reader.arc, 0, 4, 8)

\* C26: when remove_file_by_slot(s) or remove_folder_by_slot(s) has
\* returned, the mount table is the previous one without the entry whose
\* root is s, the other entries in their order (so it is unchanged when s
\* is not the root of a mount); and no mount was anchored strictly inside
\* the subtree that a folder removal removed.
C26_RemovalDeregistersMount ==
    [][(/\ last'.op \in {"remove_file_by_slot", "remove_folder_by_slot"}
        /\ last'.res # "panic") =>
          LET sl == last'.slot
              hits == {i \in DOMAIN mounts : mounts[i].root = sl}
          IN /\ Cardinality(hits) <= 1
             /\ Len(mounts') = Len(mounts) - Cardinality(hits)
             /\ \A i \in DOMAIN mounts' :
                   mounts'[i] = mounts[IF \E h \in hits : h <= i THEN i + 1 ELSE i]
             /\ (sl.tag = "Folder" /\ sl.slot \in DOMAIN folders) =>
                   \A i \in DOMAIN mounts :
                       IF mounts[i].root.tag = "Folder"
                       THEN mounts[i].root.slot \notin Descendants(self, sl.slot)
                       ELSE mounts[i].root.slot \notin SubtreeFiles(self, sl.slot)]_vars

\* C26, the case: the folder mounted first was removed and its mount is
\* gone from the table, the file mount registered after it is the entry
\* that remains.
C26_Witness ==
    /\ last.op = "remove_folder_by_slot" /\ last.res = "Ok"
    /\ root = 1 /\ last.slot = SlotFolder(2)
    /\ Len(mounts) = 1
    /\ mounts[1].root = SlotFile(3)

\* The call recorded in c is one that removes file f of v: the removal of
\* f, the removal of a folder with f in its subtree, a retain that drops the
\* mount of f (mnts being the table it leaves), or a clear.
RemovesFile(v, c, mnts, f) ==
    \/ c.op = "clear"
    \/ c.op = "remove_file_by_slot" /\ c.slot = SlotFile(f)
    \/ /\ c.op = "remove_folder_by_slot"
       /\ c.slot.slot \in DOMAIN v.folders
       /\ f \in SubtreeFiles(v, c.slot.slot)
    \/ /\ c.op = "retain"
       /\ \E i \in DOMAIN v.mounts :
             v.mounts[i] \notin Range(mnts) /\ f \in MountFiles(v, v.mounts[i].root)

\* The same for folder o of v.
RemovesFolder(v, c, mnts, o) ==
    \/ c.op = "clear"
    \/ /\ c.op = "remove_folder_by_slot"
       /\ c.slot.slot \in DOMAIN v.folders
       /\ o \in Descendants(v, c.slot.slot) \cup {c.slot.slot}
    \/ /\ c.op = "retain"
       /\ \E i \in DOMAIN v.mounts :
             v.mounts[i] \notin Range(mnts) /\ o \in MountFolders(v, v.mounts[i].root)

\* C27: after every operation (a mount, successful or not, a removal, a
\* retain, normalize_names, ingest_all) every file slot and every non-root
\* folder slot of an entry that the operation does not remove still
\* resolves through get_file / get_folder, and to the same entry: the same
\* parent and the same name up to ASCII case.
C27_SlotStability ==
    [][/\ \A f \in DOMAIN files :
             ~RemovesFile(self, last', mounts', f) =>
                 /\ get_file(self', f) = f
                 /\ files'[f].parent = files[f].parent
                 /\ LowerCased(<<files'[f].name>>) = LowerCased(<<files[f].name>>)
       /\ \A o \in DOMAIN folders \ {root} :
             ~RemovesFolder(self, last', mounts', o) =>
                 /\ get_folder(self', o) = o
                 /\ folders'[o].parent = folders[o].parent
                 /\ LowerCased(<<folders'[o].name>>)
                        = LowerCased(<<folders[o].name>>)]_vars

\* C27, the case: the file in slot 1 was removed, a mount has since put a
\* file in slot 3, and slot 2 still resolves to the file it was emitted for.
C27_Witness ==
    /\ last.op = "mount" /\ last.res = "Ok"
    /\ 1 \notin DOMAIN files
    /\ get_file(self, 2) = 2 /\ get_file(self, 3) = 3
    /\ files[2].parent = root /\ files[3].parent = root

\* C28: a file slot or folder slot that was handed out and no longer names
\* a live entry names none after any operation: get_file / get_folder on it
\* return None, also after a mount that inserts new entries.
C28_StaleNeverAliases ==
    [][/\ \A f \in 1..(nextFile - 1) :
             get_file(self, f) = NONE => get_file(self', f) = NONE
       /\ \A o \in 1..(nextFolder - 1) :
             get_folder(self, o) = NONE => get_folder(self', o) = NONE]_vars

\* C28, the case: the file in slot 1 and, by a clear, the root in folder
\* slot 1 were freed; a mount has inserted a file since, and neither slot
\* resolves.
C28_Witness ==
    /\ last.op = "mount" /\ last.res = "Ok"
    /\ root # 1
    /\ get_file(self, 1) = NONE /\ get_folder(self, 1) = NONE
    /\ \E f \in DOMAIN files : f > 1 /\ files[f].parent = root

\* The number of direct children of the root folder of v.
RootChildren(v) ==
    Len(v.folders[v.root].files) + Len(v.folders[v.root].subfolders)

\* C29: a fresh VirtualFs has no child of the root and no mount, and each
\* successful mount adds exactly one direct child to the root folder, a
\* file or a subfolder named by the mount point, and one entry to the mount
\* table: k successful mounts on a fresh VirtualFs leave k children and k
\* entries.
C29_MountAddsOneChild ==
    [][/\ last.op = "default" => (RootChildren(self) = 0 /\ Len(mounts) = 0)
       /\ (last'.op = "mount" /\ last'.res = "Ok") =>
             /\ RootChildren(self') = RootChildren(self) + 1
             /\ Len(mounts') = Len(mounts) + 1
             /\ LET rt == mounts'[Len(mounts')].root
                IN IF rt.tag = "File"
                   THEN /\ folders'[root'].files = Append(folders[root].files, rt.slot)
                        /\ folders'[root'].subfolders = folders[root].subfolders
                        /\ files'[rt.slot].name = last'.mp
                   ELSE /\ folders'[root'].subfolders
                               = Append(folders[root].subfolders, rt.slot)
                        /\ folders'[root'].files = folders[root].files
                        /\ folders'[rt.slot].name = last'.mp]_vars

\* C29, the case: two mounts, of a file and of a directory, are all that
\* inserted into the fresh VirtualFs: the root has two children and the
\* mount table two entries.
C29_Witness ==
    /\ last.op = "mount" /\ last.res = "Ok"
    /\ root = 1 /\ nextFile = 4 /\ nextFolder = 4
    /\ file_count(self) = 3 /\ folder_count(self) = 3
    /\ Len(mounts) = 2
    /\ RootChildren(self) = 2
    /\ Len(folders[root].files) = 1

\* C30: after every operation of any sequence of mounts, removals, retains
\* and clears, total_count() equals file_count() + folder_count(), where
\* file_count() and folder_count() are the numbers of slots that name a live
\* entry of the file arena and of the folder arena.
C30_CountInvariant ==
    /\ file_count(self)
           = Cardinality({f \in 1..(nextFile - 1) : get_file(self, f) # NONE})
    /\ folder_count(self)
           = Cardinality({o \in 1..(nextFolder - 1) : get_folder(self, o) # NONE})
    /\ total_count(self) = file_count(self) + folder_count(self)
    /\ total_count(self) = Cardinality(DOMAIN files) + Cardinality(DOMAIN folders)

\* C30, the case: a file and a directory were mounted and a file has been
\* removed: two files and three folders are live, five entries in all.
C30_Witness ==
    /\ last.op = "remove_file_by_slot" /\ last.res = "true"
    /\ nextFile = 4 /\ nextFolder = 4
    /\ file_count(self) = 2 /\ folder_count(self) = 3
    /\ total_count(self) = 5

(***************************************************************************)
(* C31 .. C38                                                              *)
(***************************************************************************)

(***************************************************************************)
(* Lookup in a mounted archive.  The initial states are the archives       *)
(* mounted at "b" whose top folder holds the other folders, each with its  *)
(* own name, and where every file is in one of the folders under one of    *)
(* two names; the files of one folder have distinct names, but a file may  *)
(* have the name of a folder next to it.                                   *)
(***************************************************************************)
\* The top folder of the archive: the root of the mount at "b".
LookupFolder == 2

\* The names of the folders and of the files inside the archive.
LookupFolderNames == {<<"X">>, <<"d">>}
LookupFileNames == {<<"x">>, <<"Y">>}

\* Where a file can be: a folder of the archive and a name.
LookupPlaces == (LookupFolder..MaxFolderKey) \X LookupFileNames

\* The paths looked up, as the components below "b".
LookupProbes ==
    {<<<<"x">>>>, <<<<"d">>>>, <<<<"Y">>>>, <<<<"c">>>>,
     <<<<"x">>, <<"y">>>>, <<<<"X">>, <<"x">>>>, <<<<"D">>, <<"Y">>>>,
     <<<<"x">>, <<"c">>>>}

LookupInit ==
    /\ root = 1
    /\ mounts = <<MountInfo("Zip", <<"b">>, SlotFolder(LookupFolder), "Zip")>>
    /\ \E nm \in [(LookupFolder + 1)..MaxFolderKey -> LookupFolderNames] :
       \E pl \in [1..MaxFileKey -> LookupPlaces] :
          /\ \A i, j \in DOMAIN nm : i # j => nm[i] # nm[j]
          /\ \A i, j \in DOMAIN pl : i # j => pl[i] # pl[j]
          /\ files = [k \in 1..MaxFileKey |-> VFile(pl[k][2], pl[k][1])]
          /\ folders =
                 [o \in 1..MaxFolderKey |->
                     IF o = 1
                     THEN VFolder(<<"/">>, NONE, <<>>, <<LookupFolder>>, "Root")
                     ELSE VFolder(IF o = LookupFolder THEN <<"b">> ELSE nm[o],
                                  IF o = LookupFolder THEN 1 ELSE LookupFolder,
                                  values_order({k \in 1..MaxFileKey : pl[k][1] = o}),
                                  IF o = LookupFolder
                                  THEN [i \in 1..(MaxFolderKey - LookupFolder) |->
                                           LookupFolder + i]
                                  ELSE <<>>,
                                  "Zip")]
    /\ nextFile = MaxFileKey + 1
    /\ nextFolder = MaxFolderKey + 1
    /\ debug_assertions \in BOOLEAN
    /\ panicked = FALSE
    /\ last = Call("mount", <<"b">>, NoSlot, "Plain", "Ok")
    /\ reading = NoReading
    /\ frame = NoFrame

\* lookup("b/" + comps): the result is recorded; a panic ends the program.
Lookup(comps) ==
    /\ ~panicked
    /\ \E r \in lookup(self, to_vpath(<<<<"b">>>> \o comps)) :
          /\ last' = Call("lookup", to_vpath(comps),
                          [tag |-> r.tag, slot |-> r.slot], "NotAsked", r.tag)
          /\ panicked' = (r.tag = "Panic")
    /\ UNCHANGED <<root, mounts, files, folders, nextFile, nextFolder,
                   debug_assertions, reading, frame>>

LookupNext == \E comps \in LookupProbes : Lookup(comps)

SpecLookup == LookupInit /\ [][LookupNext]_vars

\* The subfolders and the files of the archive's top folder whose name is
\* pcomp ignoring ASCII case.
ClashFolders(pcomp) ==
    {s \in Range(folders[LookupFolder].subfolders) :
        s \in DOMAIN folders /\ eq_ignore_ascii_case(folders[s].name, pcomp)}

ClashFiles(pcomp) ==
    {f \in Range(folders[LookupFolder].files) :
        f \in DOMAIN files /\ eq_ignore_ascii_case(files[f].name, pcomp)}

\* Folder s has a file or a subfolder whose name is pcomp ignoring ASCII case.
HasChild(s, pcomp) ==
    \/ \E f \in Range(folders[s].files) :
          f \in DOMAIN files /\ eq_ignore_ascii_case(files[f].name, pcomp)
    \/ \E o \in Range(folders[s].subfolders) :
          o \in DOMAIN folders /\ eq_ignore_ascii_case(folders[o].name, pcomp)

\* C31: when a component of the path matches, ignoring ASCII case, both a
\* subfolder and a file of the current folder, lookup descends into the
\* subfolder with the components that remain: its result is that of the
\* lookup from the subfolder, never the file of the same name, the subfolder
\* itself when no component remains, and None when the next component names
\* nothing inside the subfolder.
C31_SubfolderPriority ==
    last.op = "lookup" =>
        LET comps == components(last.mp)
            rest == Tail(comps)
        IN (ClashFolders(Head(comps)) # {} /\ ClashFiles(Head(comps)) # {}) =>
              \A s \in ClashFolders(Head(comps)) :
                 /\ [tag |-> last.slot.tag, slot |-> last.slot.slot]
                        \in lookup_recur(self, s, rest)
                 /\ \A f \in ClashFiles(Head(comps)) : last.slot # RefFile(f)
                 /\ rest = <<>> => last.slot = RefFolder(s)
                 /\ (rest # <<>> /\ ~HasChild(s, Head(rest))) => last.res = "None"

\* C31, the case: the archive has a folder "X" and, next to it, a file "x";
\* "b/x/c" was looked up and the result is None, and "b/x" looks up to the
\* folder.
C31_Witness ==
    /\ last.op = "lookup"
    /\ last.mp = <<"x", "/", "c">>
    /\ last.res = "None"
    /\ \E s \in ClashFolders(<<"x">>) :
          /\ ClashFiles(<<"x">>) # {}
          /\ lookup(self, <<"b", "/", "x">>) = {RefFolder(s)}

(***************************************************************************)
(* retain, step by step.  The call in progress is in `frame`: where it is  *)
(* (`pc`), the VirtualFs as it was when retain was called (`entry`), the   *)
(* index of the mount that Vec::retain visits next (`i`), the mounts that  *)
(* were handed to the predicate (`seen`), those the predicate kept         *)
(* (`kept`), and the queue `to_unmount`.  Vec::retain owns the mount table *)
(* while it scans: the table has its new content when the scan is over.    *)
(* The initial states are those after a sequence of successful mounts.     *)
(***************************************************************************)
\* The mount points of the mounts of the initial states, in their order.
RetainMountPoints == <<<<"a">>, <<"b">>, <<"d">>, <<"x">>, <<"y">>>>

\* The keys a sequence of sources needs, from its element i on.
RECURSIVE files_needed(_, _)
files_needed(srcs, i) ==
    IF i > Len(srcs) THEN 0 ELSE NeedFiles(srcs[i]) + files_needed(srcs, i + 1)

RECURSIVE folders_needed(_, _)
folders_needed(srcs, i) ==
    IF i > Len(srcs) THEN 0 ELSE NeedFolders(srcs[i]) + folders_needed(srcs, i + 1)

\* The sequences of sources that the arenas of the model have keys for.
RetainSources ==
    {srcs \in UNION {[1..n -> Sources] : n \in 0..MaxFileKey} :
        /\ files_needed(srcs, 1) <= MaxFileKey
        /\ folders_needed(srcs, 1) <= MaxFolderKey - 1}

\* mount() of srcs[i], srcs[i + 1], ..: each succeeds and is registered.
RECURSIVE mount_all(_, _, _, _, _)
mount_all(v, srcs, i, nf, no) ==
    IF i > Len(srcs) THEN v
    ELSE LET b == mount_build(v, srcs[i], RetainMountPoints[i], nf, no)
             mntinfo == MountInfo(srcs[i], RetainMountPoints[i], b.root, b.format)
         IN mount_all([b.v EXCEPT !.mounts = Append(@, mntinfo)], srcs, i + 1,
                      nf + NeedFiles(srcs[i]), no + NeedFolders(srcs[i]))

RetainInit ==
    /\ \E srcs \in RetainSources :
          LET v == mount_all(VirtualFs(1, <<>>, <<>>,
                                       (1 :> VFolder(<<"/">>, NONE, <<>>, <<>>,
                                                     "Root"))),
                             srcs, 1, 1, 2)
          IN /\ root = v.root
             /\ mounts = v.mounts
             /\ files = v.files
             /\ folders = v.folders
             /\ nextFile = 1 + files_needed(srcs, 1)
             /\ nextFolder = 2 + folders_needed(srcs, 1)
    /\ debug_assertions \in BOOLEAN
    /\ panicked = FALSE
    /\ last = Call("mount", <<>>, NoSlot, "Plain", "Ok")
    /\ reading = NoReading
    /\ frame = NoFrame

\* `let mut to_unmount = vec![];` and the start of `self.mounts.retain(..)`.
RetainFrame(v) ==
    [pc |-> "scan", entry |-> v, i |-> 1, seen |-> <<>>, kept |-> <<>>,
     to_unmount |-> <<>>]

\* The closure of `self.mounts.retain(..)` on the mount at fr.i, where the
\* predicate answers b, and the removal of the mount's root at once when
\* the predicate does not keep it.
retain_visit_removes_now(v, fr, b) ==
    LET mntinfo == fr.entry.mounts[fr.i]
    IN [v |-> IF b THEN v
              ELSE IF mntinfo.root.tag = "File"
                   THEN [v EXCEPT !.files = arena_remove(@, mntinfo.root.slot)]
                   ELSE [v EXCEPT !.folders = arena_remove(@, mntinfo.root.slot)],
        fr |-> [fr EXCEPT !.i = @ + 1,
                          !.seen = Append(@, mntinfo),
                          !.kept = IF b THEN Append(@, mntinfo) ELSE @]]

\* The closure of `self.mounts.retain(..)` on the mount at fr.i, where the
\* predicate answers b: the mount is kept, or its root is queued.
retain_visit(v, fr, b) ==
    LET mntinfo == fr.entry.mounts[fr.i]
    IN [v |-> v,
        fr |-> [fr EXCEPT !.i = @ + 1,
                          !.seen = Append(@, mntinfo),
                          !.kept = IF b THEN Append(@, mntinfo) ELSE @,
                          !.to_unmount = IF b THEN @
                                         ELSE Append(@, mntinfo.root)]]

\* retain is called.
RetainCall ==
    /\ ~panicked
    /\ frame.pc \in {"none", "returned"}
    /\ frame' = RetainFrame(self)
    /\ UNCHANGED <<root, mounts, files, folders, nextFile, nextFolder,
                   debug_assertions, panicked, last, reading>>

\* Vec::retain hands the next mount to the predicate, which answers b.
RetainVisit(b) ==
    /\ ~panicked
    /\ frame.pc = "scan"
    /\ frame.i <= Len(frame.entry.mounts)
    /\ LET r == retain_visit(self, frame, b)
       IN /\ frame' = r.fr
          /\ files' = r.v.files
          /\ folders' = r.v.folders
    /\ UNCHANGED <<root, mounts, nextFile, nextFolder, debug_assertions,
                   panicked, last, reading>>

\* Vec::retain returns: the mount table holds the mounts that were kept.
RetainScanned ==
    /\ ~panicked
    /\ frame.pc = "scan"
    /\ frame.i > Len(frame.entry.mounts)
    /\ mounts' = frame.kept
    /\ frame' = [frame EXCEPT !.pc = "unmount"]
    /\ UNCHANGED <<root, files, folders, nextFile, nextFolder,
                   debug_assertions, panicked, last, reading>>

\* One turn of `for root in to_unmount`.
RetainUnmount ==
    /\ ~panicked
    /\ frame.pc = "unmount"
    /\ frame.to_unmount # <<>>
    /\ LET v == retain_unmount(self, <<Head(frame.to_unmount)>>,
                               debug_assertions)
       IN /\ files' = v.files
          /\ folders' = v.folders
          /\ panicked' = ~v.ok
          /\ last' = IF v.ok THEN last
                     ELSE Call("retain", <<>>, NoSlot, "NotAsked", "panic")
    /\ frame' = [frame EXCEPT !.to_unmount = Tail(@)]
    /\ UNCHANGED <<root, mounts, nextFile, nextFolder, debug_assertions,
                   reading>>

\* `Ok(())`
RetainReturn ==
    /\ ~panicked
    /\ frame.pc = "unmount"
    /\ frame.to_unmount = <<>>
    /\ frame' = [frame EXCEPT !.pc = "returned"]
    /\ last' = Call("retain", <<>>, NoSlot, "NotAsked", "Ok")
    /\ UNCHANGED <<root, mounts, files, folders, nextFile, nextFolder,
                   debug_assertions, panicked, reading>>

RetainNext ==
    \/ RetainCall
    \/ \E b \in BOOLEAN : RetainVisit(b)
    \/ RetainScanned
    \/ RetainUnmount
    \/ RetainReturn

SpecRetain == RetainInit /\ [][RetainNext]_vars

\* The indices of the mounts of the entry table that the predicate kept.
KeptIndices(fr) ==
    {i \in 1..Len(fr.entry.mounts) :
        \E j \in 1..Len(fr.kept) : fr.kept[j] = fr.entry.mounts[i]}

\* The steps of retain leave what the call taken as one step leaves.
RetainStepsAgree ==
    frame.pc = "returned" =>
        self = retain(frame.entry, KeptIndices(frame), debug_assertions)

\* C32: in a call of retain the predicate is handed the mounts of the
\* table as it was at the call, one after the other in the order of the
\* table and each once; while a mount is still to be handed to it the file
\* arena, the folder arena and the mount table are as they were at the
\* call, so every evaluation comes before the first removal.
C32_RetainScansBeforeRemoving ==
    frame.pc \in {"scan", "unmount", "returned"} =>
        /\ frame.seen = SubSeq(frame.entry.mounts, 1, Len(frame.seen))
        /\ frame.pc = "scan" =>
              /\ Len(frame.seen) = frame.i - 1
              /\ self = frame.entry
        /\ frame.pc # "scan" => frame.seen = frame.entry.mounts
        /\ (files # frame.entry.files \/ folders # frame.entry.folders) =>
              frame.seen = frame.entry.mounts

\* C32, the case: retain was called with three mounts, the predicate kept
\* the second only, and the removal of the first mount's root has begun
\* while the root of the third is still queued.
C32_Witness ==
    /\ frame.pc = "unmount"
    /\ Len(frame.entry.mounts) = 3
    /\ frame.kept = <<frame.entry.mounts[2]>>
    /\ frame.to_unmount = <<frame.entry.mounts[3].root>>
    /\ files # frame.entry.files

(***************************************************************************)
(* ingest_all, step by step, with the locks of the readers.  `frame` has   *)
(* the files as they were at the call (`entry`), the slots still to visit  *)
(* (`rest`, the one being visited first), the reader whose lock `guard`    *)
(* holds, `prev_arc`, the addresses of the readers that are locked         *)
(* (`locked`) and the slots at which a lock was taken (`acquired`).        *)
(* Arc::new returns any address that no live reader has: one that was      *)
(* never used, or the address of a reader that has been freed.             *)
(***************************************************************************)
\* The addresses an Arc can have.
Arcs == 1..(MaxFileKey + 3)

\* What a file of the archive can be: an entry of the first physical file
\* that can be read or one that cannot, an entry of the second, or a buffer
\* in memory.
LockShapes ==
    {[tag |-> "File", fh |-> 1, span |-> <<0, 4>>, compression |-> "None"],
     [tag |-> "File", fh |-> 1, span |-> <<8, 12>>, compression |-> "None"],
     [tag |-> "File", fh |-> 2, span |-> <<4, 8>>, compression |-> "None"],
     [tag |-> "Memory", fh |-> 0, span |-> <<0, 4>>, compression |-> "None"]}

LocksInit ==
    /\ root = 1
    /\ mounts = <<MountInfo("Wad", <<"b">>, SlotFolder(ArchiveFolder), "Wad")>>
    /\ \E shape \in [1..MaxFileKey -> LockShapes] :
          files = [k \in 1..MaxFileKey |-> Entry(k, shape[k])]
    /\ folders = (1 :> VFolder(<<"/">>, NONE, <<>>, <<ArchiveFolder>>, "Root"))
                 @@ (ArchiveFolder :>
                        VFolder(<<"b">>, 1, [k \in 1..MaxFileKey |-> k], <<>>, "Wad"))
    /\ nextFile = MaxFileKey + 1
    /\ nextFolder = ArchiveFolder + 1
    /\ debug_assertions \in BOOLEAN
    /\ panicked = FALSE
    /\ last = Call("mount", <<"b">>, NoSlot, "Plain", "Ok")
    /\ reading = NoReading
    /\ frame = NoFrame

\* `!std::ptr::eq(arc_ptr, prev_arc)` that is true whatever the pointers are.
needs_lock_always(arc_ptr, prev_arc) == TRUE

\* `!std::ptr::eq(arc_ptr, prev_arc)`
needs_lock(arc_ptr, prev_arc) == arc_ptr # prev_arc

\* The addresses that no live reader has: the readers of the files and the
\* one the guard keeps alive are live.
free_arcs(v, guard) ==
    Arcs \ ({v.files[k].reader.arc : k \in DOMAIN v.files} \cup {guard.arc})

\* `let mut vfiles = self.files.values_mut();`
IngestCall ==
    /\ ~panicked
    /\ frame.pc \in {"none", "returned"}
    /\ frame' = [pc |-> IF DOMAIN files = {} THEN "returned" ELSE "first",
                 entry |-> files, rest |-> values_order(DOMAIN files),
                 guard |-> ReaderFile(0), prev_arc |-> 0, locked |-> {},
                 acquired |-> {}]
    /\ UNCHANGED <<root, mounts, files, folders, nextFile, nextFolder,
                   debug_assertions, panicked, last, reading>>

\* `let mut guard = vfile0.reader.lock_arc(); let mut prev_arc = ..;`
LockFirst ==
    /\ frame.pc = "first"
    /\ LET vfile0 == files[Head(frame.rest)]
       IN frame' = [frame EXCEPT !.pc = "ingest",
                                 !.guard = vfile0.reader,
                                 !.prev_arc = vfile0.reader.arc,
                                 !.locked = {vfile0.reader.arc},
                                 !.acquired = {Head(frame.rest)}]
    /\ UNCHANGED <<root, mounts, files, folders, nextFile, nextFolder,
                   debug_assertions, panicked, last, reading>>

\* `if let Some(bytes) = ingest(&mut guard, ..) { .. }` on the file visited;
\* the reader that Arc::new makes is at address a.
IngestVisited(a) ==
    /\ frame.pc = "ingest"
    /\ a \in free_arcs(self, frame.guard)
    /\ LET slot == Head(frame.rest)
           vfile == ingest_file(self, files[slot], frame.guard)
       IN files' = [files EXCEPT ![slot] =
                       IF vfile.reader = files[slot].reader THEN vfile
                       ELSE [vfile EXCEPT !.reader.arc = a]]
    /\ frame' = [frame EXCEPT !.rest = Tail(@),
                              !.pc = IF Tail(frame.rest) = <<>> THEN "drop"
                                     ELSE "next"]
    /\ UNCHANGED <<root, mounts, folders, nextFile, nextFolder,
                   debug_assertions, panicked, last, reading>>

\* `if !std::ptr::eq(arc_ptr, prev_arc) { guard = vfile.reader.lock_arc(); }`
\* and `prev_arc = arc_ptr;`.  The lock is taken before the old guard is
\* dropped; locking a mutex that the call holds never returns.
LockNext ==
    /\ frame.pc = "next"
    /\ LET vfile == files[Head(frame.rest)]
           arc_ptr == vfile.reader.arc
       IN IF ~needs_lock(arc_ptr, frame.prev_arc)
          THEN frame' = [frame EXCEPT !.pc = "ingest", !.prev_arc = arc_ptr]
          ELSE IF arc_ptr \in frame.locked
          THEN frame' = [frame EXCEPT !.pc = "deadlock"]
          ELSE frame' = [frame EXCEPT !.pc = "ingest",
                                      !.guard = vfile.reader,
                                      !.prev_arc = arc_ptr,
                                      !.locked = {arc_ptr},
                                      !.acquired = @ \cup {Head(frame.rest)}]
    /\ UNCHANGED <<root, mounts, files, folders, nextFile, nextFolder,
                   debug_assertions, panicked, last, reading>>

\* The end of ingest_all: the guard is dropped.
IngestReturn ==
    /\ frame.pc = "drop"
    /\ frame' = [frame EXCEPT !.pc = "returned", !.locked = {}]
    /\ last' = Call("ingest_all", <<>>, NoSlot, "NotAsked", "Ok")
    /\ UNCHANGED <<root, mounts, files, folders, nextFile, nextFolder,
                   debug_assertions, panicked, reading>>

LocksNext ==
    \/ IngestCall
    \/ LockFirst
    \/ \E a \in Arcs : IngestVisited(a)
    \/ LockNext
    \/ IngestReturn

SpecLocks == LocksInit /\ [][LocksNext]_vars

\* The slots that the call in progress has visited or is visiting, and the
\* slot visited before slot k, in the order of the arena.
Visited(fr) ==
    {k \in DOMAIN fr.entry :
        k \notin Range(fr.rest) \/ (fr.pc = "ingest" /\ k = Head(fr.rest))}

Preceding(fr, k) ==
    CHOOSE j \in DOMAIN fr.entry :
        /\ j < k
        /\ \A i \in DOMAIN fr.entry : i < k => i <= j

\* C33: in ingest_all, when a file is read the guard held is the lock of
\* the reader that the file had when ingest_all was called, and that reader
\* is locked; after the first file a lock is taken at a file exactly when
\* its reader is another instance than that of the file just before it in
\* the order of the arena; and ingest_all never tries to lock a reader
\* whose lock it holds.
C33_GuardReuse ==
    frame.pc \in {"first", "ingest", "next", "drop", "deadlock", "returned"} =>
        /\ frame.pc # "deadlock"
        /\ frame.pc = "ingest" =>
              LET k == Head(frame.rest)
              IN /\ frame.guard = frame.entry[k].reader
                 /\ files[k].reader = frame.entry[k].reader
                 /\ frame.locked = {frame.guard.arc}
        /\ \A k \in Visited(frame) :
              k # Head(values_order(DOMAIN frame.entry)) =>
                 (k \in frame.acquired <=>
                     frame.entry[k].reader.arc #
                         frame.entry[Preceding(frame, k)].reader.arc)

\* C33, the case: the first and the third file share a reader and the
\* second has another; the first file has been ingested, and the third is
\* about to be read under a lock taken again for it.
C33_Witness ==
    /\ frame.pc = "ingest"
    /\ Head(frame.rest) = 3
    /\ frame.entry[1].reader.arc = frame.entry[3].reader.arc
    /\ frame.entry[2].reader.arc # frame.entry[1].reader.arc
    /\ frame.entry[2].reader.tag = "File"
    /\ files[1].reader.tag = "Memory"
    /\ frame.acquired = {1, 2, 3}

\* The live children of the root folder: the slots of its files and of its
\* subfolders that name an entry of the arenas.
LiveRootChildren ==
    {SlotFile(f) : f \in Range(folders[root].files) \cap DOMAIN files}
    \cup {SlotFolder(o) : o \in Range(folders[root].subfolders) \cap DOMAIN folders}

ChildName(c) ==
    IF c.tag = "File" THEN files[c.slot].name ELSE folders[c.slot].name

\* C34: in every state reached by mount, remove_file_by_slot,
\* remove_folder_by_slot, retain and clear, where every mount names its root
\* child after its mount point, no two live children of the root folder,
\* files or subfolders, have names that are equal ignoring ASCII case.
C34_RootNamesUnique ==
    \A c, d \in LiveRootChildren :
        c # d => ~eq_ignore_ascii_case(ChildName(c), ChildName(d))

\* C34, the case: the root has a live file "a" and a live folder "b", and
\* a mount at "A" has just been refused as a duplicate.
C34_Witness ==
    /\ last.op = "mount"
    /\ last.mp = <<"A">>
    /\ last.res = "MountPointDuplicate"
    /\ \E c, d \in LiveRootChildren :
          /\ c.tag = "File" /\ ChildName(c) = <<"a">>
          /\ d.tag = "Folder" /\ ChildName(d) = <<"b">>

\* C35: on every call of remove_folder_by_slot and of retain that can be
\* made in a state reached through the public operations, every debug
\* assertion of the removal code holds: a build that evaluates the
\* assertions panics on a call only if the build without them panics on it.
C35_DebugAssertionsHold ==
    ~panicked =>
        /\ \A slot \in 1..(nextFolder - 1) :
              remove_folder_by_slot(self, slot, TRUE).ok
                  = remove_folder_by_slot(self, slot, FALSE).ok
        /\ \A keep \in SUBSET (1..Len(mounts)) :
              retain(self, keep, TRUE).ok = retain(self, keep, FALSE).ok

\* C36: clear keeps the identity of the root folder: the slot that root()
\* had before clear is the slot of root() after it, and get_folder still
\* resolves it to the root folder.
C36_ClearKeepsRootSlot ==
    [][last'.op = "clear" =>
          /\ root' = root
          /\ get_folder(self', root) = root']_vars

\* C37: remove_file_by_slot with a slot that names no live file returns
\* false and leaves the file arena, the folder arena with the files set of
\* every folder, and the mount table as they were.
C37_RemoveStaleFileIsNoOp ==
    [][(last'.op = "remove_file_by_slot"
        /\ last'.slot.slot \notin DOMAIN files) =>
          /\ last'.res = "false"
          /\ files' = files
          /\ folders' = folders
          /\ mounts' = mounts]_vars

(***************************************************************************)
(* remove_folder_by_slot, step by step.  `frame` has the VirtualFs as it   *)
(* was at the call (`entry`), the slot the call was made with (`target`),  *)
(* the stack of the calls of remove_folder_recur that have not returned    *)
(* (the innermost last), and two counters: how often remove_folder_recur   *)
(* was entered for a folder slot (`visits`) and how often a file was taken *)
(* out of the file arena (`removals`).  A call on the stack is at "enter", *)
(* in the loop over its subfolders ("subs", or "called" while the call for *)
(* the first of them runs), or in the loop over its files ("files").       *)
(* The initial states are the trees of mounted directories: every folder   *)
(* but the root has a parent with a lower slot, every file is in a folder  *)
(* of a mount, and every child of the root is the root of a mount.         *)
(***************************************************************************)
\* The names of the folders and of the files, by slot.
RemoveFolderNames == <<<<"/">>, <<"a">>, <<"b">>, <<"d">>, <<"x">>>>
RemoveFileNames == <<<<"x">>, <<"y">>, <<"a">>, <<"b">>, <<"d">>>>

\* The slots in S, in ascending order, whose entry has parent p.
ChildrenOf(S, parents, p) == values_order({k \in S : parents[k] = p})

RemoveInit ==
    /\ root = 1
    /\ \E op \in [2..MaxFolderKey -> 1..MaxFolderKey] :
       \E ip \in [1..MaxFileKey -> 2..MaxFolderKey] :
          /\ \A o \in 2..MaxFolderKey : op[o] < o
          /\ files = [f \in 1..MaxFileKey |-> VFile(RemoveFileNames[f], ip[f])]
          /\ folders =
                 [o \in 1..MaxFolderKey |->
                     VFolder(RemoveFolderNames[o],
                             IF o = 1 THEN NONE ELSE op[o],
                             ChildrenOf(1..MaxFileKey, ip, o),
                             ChildrenOf(2..MaxFolderKey, op, o),
                             IF o = 1 THEN "Root" ELSE "Directory")]
          /\ LET tops == ChildrenOf(2..MaxFolderKey, op, 1)
             IN mounts = [i \in 1..Len(tops) |->
                             MountInfo("Dir", RemoveFolderNames[tops[i]],
                                       SlotFolder(tops[i]), "Directory")]
    /\ nextFile = MaxFileKey + 1
    /\ nextFolder = MaxFolderKey + 1
    /\ debug_assertions \in BOOLEAN
    /\ panicked = FALSE
    /\ last = Call("mount", <<>>, NoSlot, "Plain", "Ok")
    /\ reading = NoReading
    /\ frame = NoFrame

\* A call of remove_folder_recur(oslot) that has just been made.
Activation(oslot) ==
    [oslot |-> oslot, stage |-> "enter", subfolders |-> <<>>, files |-> <<>>]

\* The innermost call and the stack with the innermost call replaced.
Top(fr) == fr.stack[Len(fr.stack)]

WithTop(fr, act) == [fr EXCEPT !.stack[Len(fr.stack)] = act]

\* A call whose loop over the subfolders has `subs` left: when none is
\* left it goes on to the loop over the files of its folder.
after_subfolders(act, subs, fo) ==
    IF subs = <<>>
    THEN [act EXCEPT !.stage = "files", !.subfolders = <<>>,
                     !.files = fo[act.oslot].files]
    ELSE [act EXCEPT !.stage = "subs", !.subfolders = subs]

\* The step panics: the program ends.
RemovePanics ==
    /\ panicked' = TRUE
    /\ last' = Call("remove_folder_by_slot", <<>>, SlotFolder(frame.target),
                    "NotAsked", "panic")

\* remove_folder_by_slot(slot) is called: `assert_ne!(slot, self.root)` and
\* the call of remove_folder_recur.
RemoveCall(slot) ==
    /\ ~panicked
    /\ frame.pc \in {"none", "returned"}
    /\ frame' = [pc |-> IF slot = root THEN "panic" ELSE "recur",
                 entry |-> self, target |-> slot,
                 stack |-> <<Activation(slot)>>,
                 visits |-> [o \in 1..MaxFolderKey |-> 0],
                 removals |-> [f \in 1..MaxFileKey |-> 0]]
    /\ panicked' = (slot = root)
    /\ last' = IF slot = root
               THEN Call("remove_folder_by_slot", <<>>, SlotFolder(slot),
                         "NotAsked", "panic")
               ELSE last
    /\ UNCHANGED <<root, mounts, files, folders, nextFile, nextFolder,
                   debug_assertions, reading>>

\* The start of remove_folder_recur: the folder is taken out of the
\* subfolders of its parent, the assertion on did_remove, and
\* `std::mem::take` of its own subfolders.
RecurEnter ==
    /\ ~panicked
    /\ frame.pc = "recur"
    /\ Top(frame).stage = "enter"
    /\ LET oslot == Top(frame).oslot
           counted == [frame EXCEPT !.visits[oslot] = @ + 1]
           indexed == /\ oslot \in DOMAIN folders
                      /\ folders[oslot].parent # NONE
                      /\ folders[oslot].parent \in DOMAIN folders
           parent_slot == folders[oslot].parent
           did_remove == oslot \in Range(folders[parent_slot].subfolders)
           detached == [folders EXCEPT ![parent_slot].subfolders =
                                           swap_remove(@, oslot)]
       IN IF ~indexed
          THEN /\ frame' = [counted EXCEPT !.pc = "panic"]
               /\ RemovePanics
               /\ UNCHANGED folders
          ELSE IF debug_assertions /\ ~did_remove
          THEN /\ frame' = [counted EXCEPT !.pc = "panic"]
               /\ RemovePanics
               /\ folders' = detached
          ELSE /\ frame' = WithTop(counted,
                                   after_subfolders(Top(frame),
                                                    detached[oslot].subfolders,
                                                    detached))
               /\ folders' = [detached EXCEPT ![oslot].subfolders = <<>>]
               /\ UNCHANGED <<panicked, last>>
    /\ UNCHANGED <<root, mounts, files, nextFile, nextFolder,
                   debug_assertions, reading>>

\* `for slot in subfolders { self.remove_folder_recur(slot);`
RecurDescend ==
    /\ ~panicked
    /\ frame.pc = "recur"
    /\ Top(frame).stage = "subs"
    /\ frame' = [WithTop(frame, [Top(frame) EXCEPT !.stage = "called"])
                    EXCEPT !.stack = Append(@, Activation(Head(Top(frame).subfolders)))]
    /\ UNCHANGED <<root, mounts, files, folders, nextFile, nextFolder,
                   debug_assertions, panicked, last, reading>>

\* One turn of `for islot in self.folders[oslot].files.iter().copied()`.
RecurFile ==
    /\ ~panicked
    /\ frame.pc = "recur"
    /\ Top(frame).stage = "files"
    /\ Top(frame).files # <<>>
    /\ LET islot == Head(Top(frame).files)
           removed == islot \in DOMAIN files
           counted == IF removed
                      THEN [frame EXCEPT !.removals[islot] = @ + 1]
                      ELSE frame
       IN /\ files' = arena_remove(files, islot)
          /\ IF debug_assertions /\ ~removed
             THEN /\ frame' = [counted EXCEPT !.pc = "panic"]
                  /\ RemovePanics
             ELSE /\ frame' = WithTop(counted,
                                      [Top(frame) EXCEPT !.files = Tail(@)])
                  /\ UNCHANGED <<panicked, last>>
    /\ UNCHANGED <<root, mounts, folders, nextFile, nextFolder,
                   debug_assertions, reading>>

\* An inner call of remove_folder_recur returns and its caller goes on:
\* `let removed = self.folders.remove(slot); debug_assert!(..); }`
RecurReturn ==
    /\ ~panicked
    /\ frame.pc = "recur"
    /\ Top(frame).stage = "files"
    /\ Top(frame).files = <<>>
    /\ Len(frame.stack) > 1
    /\ LET popped == [frame EXCEPT !.stack = SubSeq(@, 1, Len(@) - 1)]
           caller == Top(popped)
           slot == Head(caller.subfolders)
           removed == slot \in DOMAIN folders
           fo == arena_remove(folders, slot)
       IN /\ folders' = fo
          /\ IF debug_assertions /\ ~removed
             THEN /\ frame' = [popped EXCEPT !.pc = "panic"]
                  /\ RemovePanics
             ELSE /\ frame' = WithTop(popped,
                                      after_subfolders(caller,
                                                       Tail(caller.subfolders),
                                                       fo))
                  /\ UNCHANGED <<panicked, last>>
    /\ UNCHANGED <<root, mounts, files, nextFile, nextFolder,
                   debug_assertions, reading>>

\* The outermost call of remove_folder_recur returns, and
\* remove_folder_by_slot unregisters the mount whose root the slot is.
RemoveReturn ==
    /\ ~panicked
    /\ frame.pc = "recur"
    /\ Top(frame).stage = "files"
    /\ Top(frame).files = <<>>
    /\ Len(frame.stack) = 1
    /\ frame' = [frame EXCEPT !.pc = "returned", !.stack = <<>>]
    /\ mounts' = unregister_mount(mounts, SlotFolder(frame.target))
    /\ last' = Call("remove_folder_by_slot", <<>>, SlotFolder(frame.target),
                    "NotAsked", "Ok")
    /\ UNCHANGED <<root, files, folders, nextFile, nextFolder,
                   debug_assertions, panicked, reading>>

RemoveNext ==
    \/ \E slot \in 1..MaxFolderKey : RemoveCall(slot)
    \/ RecurEnter
    \/ RecurDescend
    \/ RecurFile
    \/ RecurReturn
    \/ RemoveReturn

SpecRemove == RemoveInit /\ [][RemoveNext]_vars

\* The steps of remove_folder_by_slot end as the call taken as one step:
\* both panic or both return, with the same VirtualFs when they return.
RemoveStepsAgree ==
    frame.pc \in {"returned", "panic"} =>
        LET v == remove_folder_by_slot(frame.entry, frame.target, debug_assertions)
        IN /\ v.ok = (frame.pc = "returned")
           /\ v.ok => self = v

\* C38: a call of remove_folder_by_slot on a live folder other than the
\* root ends by returning, and by then remove_folder_recur was entered once
\* for the folder and for each folder below it and for no other, and each
\* file in these folders was taken out of the file arena once, and no other
\* file was.
C38_RemovalVisitsOnce ==
    (/\ frame.pc \in {"returned", "panic"}
     /\ frame.target # frame.entry.root
     /\ frame.target \in DOMAIN frame.entry.folders) =>
        LET subtree == Descendants(frame.entry, frame.target) \cup {frame.target}
            inside == SubtreeFiles(frame.entry, frame.target)
        IN /\ frame.pc = "returned"
           /\ \A o \in DOMAIN frame.visits :
                 frame.visits[o] = IF o \in subtree THEN 1 ELSE 0
           /\ \A f \in DOMAIN frame.removals :
                 frame.removals[f] = IF f \in inside THEN 1 ELSE 0
           /\ inside \cap DOMAIN files = {}

====
